---- MODULE Spec2Model ----
(***************************************************************************)
(* SmartShoppingAssistant as state machines: the ranking engine            *)
(* (search_products_enhanced), the price-phrase extractor                  *)
(* (extract_price_range), the crawl orchestrator (crawl_all_platforms),    *)
(* the cleaning of the crawled table (clean_price_column,                  *)
(* extract_rating_numeric, live_search), the search block of app.py        *)
(* (preprocess_text, the query, the reading of the results file),          *)
(* fetch_with_retry, the pagination loop of the marketplace adapters       *)
(* (crawl_<site>_to_csv), Noon's extract_from_result_item, and the crawl   *)
(* followed by the ranking of its merged table.                            *)
(*                                                                         *)
(* Python str values are sequences of one-character strings, so that       *)
(* `in`, str.lower and re.search are computed character by character.      *)
(* A character outside ASCII is written "uXXXX" (its code point).          *)
(* Optional values: None is the empty sequence, an int n is <<n>>.         *)
(* In the ranking engine prices are whole currency units, ratings tenths   *)
(* of a star and relevance scores tenths of a point; in the cleaning of    *)
(* the crawled table a float is its number of thousandths.  All            *)
(* arithmetic is exact.                                                    *)
(***************************************************************************)
EXTENDS Integers, Sequences, FiniteSets, TLC

VARIABLES
    \* search_products_enhanced
    df, attrs, top_n, search_pc, result, trace,
    \* extract_price_range
    text, price_pc, price_range,
    \* crawl_all_platforms
    platforms, task, adapter, future, order, all_results, crawl_pc, returned, surfaced,
    \* clean_price_column, extract_rating_numeric, live_search
    raw_results, clean_pc, results, live_pc, live_results,
    \* app.py search block
    user_input, app_pc, tokens, lang, query, crawl_calls, notice,
    \* fetch_with_retry
    max_retries, attempt, responses, sleeps, fetch_pc, fetched,
    \* crawl_amazon_to_csv, crawl_noon_to_csv, crawl_jumia_to_csv
    site, pages, detailed, max_products, page_number, fetched_products, collected, page_log, page_bases, pending, loop_pc, written,
    \* crawl_noon.extract_from_result_item
    tags, data, noon_pc,
    \* app.py Step 5: data/multi_platform_results.csv, the crawled and the loaded table
    csv_file, crawl_df, ranked_from

searchVars == <<df, attrs, top_n, search_pc, result, trace>>
priceVars == <<text, price_pc, price_range>>
crawlVars == <<platforms, task, adapter, future, order, all_results, crawl_pc, returned, surfaced>>
cleanVars == <<raw_results, clean_pc, results, live_pc, live_results>>
appVars == <<user_input, app_pc, tokens, lang, query, crawl_calls, notice>>
fetchVars == <<max_retries, attempt, responses, sleeps, fetch_pc, fetched>>
adapterVars == <<site, pages, detailed, max_products, page_number, fetched_products, collected, page_log, page_bases, pending, loop_pc, written>>
noonVars == <<tags, data, noon_pc>>
resultVars == <<csv_file, crawl_df, ranked_from>>
vars == <<searchVars, priceVars, crawlVars, cleanVars, appVars, fetchVars, adapterVars, noonVars, resultVars>>

-----------------------------------------------------------------------------
(* Python values *)

None == <<>>

Some(n) == <<n>>

\* Python truthiness of an Optional[int]: None and 0 are both false.
TruthyInt(o) == o # None /\ o[1] # 0

\* Python truthiness of an Optional[str]: None and "" are both false.
TruthyStr(s) == s # None

UpperCase == <<"A","B","C","D","E","F","G","H","I","J","K","L","M",
               "N","O","P","Q","R","S","T","U","V","W","X","Y","Z">>

LowerCase == <<"a","b","c","d","e","f","g","h","i","j","k","l","m",
               "n","o","p","q","r","s","t","u","v","w","x","y","z">>

\* Evaluate v once and hand the value to F.
Bind(v, F(_)) == CHOOSE r \in {F(x) : x \in {v}} : TRUE

LowerChar(c) ==
    Bind({i \in 1..Len(UpperCase) : UpperCase[i] = c}, LAMBDA at :
        IF at = {} THEN c ELSE LowerCase[CHOOSE i \in at : TRUE])

\* str.lower()
Lower(s) == SubSeq([i \in 1..Len(s) |-> LowerChar(s[i])], 1, Len(s))

\* needle in hay
Contains(hay, needle) ==
    \E i \in 1..(Len(hay) - Len(needle) + 1) :
        SubSeq(hay, i, i + Len(needle) - 1) = needle

\* any(k in hay for k in keywords)
ContainsAny(hay, keywords) ==
    \E k \in 1..Len(keywords) : Contains(hay, keywords[k])

-----------------------------------------------------------------------------
(* search/search_engine_enhanced.py *)
s_phone == <<"p","h","o","n","e">>
s_laptop == <<"l","a","p","t","o","p">>
s_tablet == <<"t","a","b","l","e","t">>
s_watch == <<"w","a","t","c","h">>
s_shoes == <<"s","h","o","e","s">>
s_samsung == <<"s","a","m","s","u","n","g">>
s_apple == <<"a","p","p","l","e">>
s_xiaomi == <<"x","i","a","o","m","i">>
s_galaxy == <<"g","a","l","a","x","y">>
s_iphone == <<"i","p","h","o","n","e">>
s_redmi == <<"r","e","d","m","i">>
s_poco == <<"p","o","c","o">>
s_smartphone == <<"s","m","a","r","t","p","h","o","n","e">>
s_mobile == <<"m","o","b","i","l","e">>
s_notebook == <<"n","o","t","e","b","o","o","k">>
s_shoe == <<"s","h","o","e">>
s_sneaker == <<"s","n","e","a","k","e","r">>
s_boot == <<"b","o","o","t">>
s_black == <<"b","l","a","c","k">>
s_128 == <<"1","2","8">>
s_cheap == <<"c","h","e","a","p">>
s_premium == <<"p","r","e","m","i","u","m">>

accessory_keywords ==
    << <<"c","a","s","e">>,
       <<"c","o","v","e","r">>,
       <<"u0643","u0641","u0631">>,
       <<"u062c","u0631","u0627","u0628">>,
       <<"s","c","r","e","e","n"," ","p","r","o","t","e","c","t","o","r">>,
       <<"u0648","u0627","u0642","u064a"," ","u0634","u0627","u0634","u0629">>,
       <<"u062d","u0645","u0627","u064a","u0629">>,
       <<"c","h","a","r","g","e","r">>,
       <<"u0634","u0627","u062d","u0646">>,
       <<"c","a","b","l","e">>,
       <<"u0643","u0627","u0628","u0644">>,
       <<"a","d","a","p","t","e","r">>,
       <<"u0645","u062d","u0648","u0644">>,
       <<"e","a","r","p","h","o","n","e">>,
       <<"u0633","u0645","u0627","u0639","u0629">>,
       <<"h","o","l","d","e","r">>,
       <<"u062d","u0627","u0645","u0644">>,
       <<"s","t","a","n","d">>,
       <<"u0633","u062a","u0627","u0646","u062f">>,
       <<"s","k","i","n">>,
       <<"s","t","i","c","k","e","r">>,
       <<"u0645","u0644","u0635","u0642">>,
       <<"t","e","m","p","e","r","e","d"," ","g","l","a","s","s">>,
       <<"u0632","u062c","u0627","u062c">>,
       <<"t","p","u">>,
       <<"s","i","l","i","c","o","n","e">>,
       <<"u0633","u064a","u0644","u064a","u0643","u0648","u0646">>,
       <<"p","o","u","c","h">>,
       <<"u062c","u064a","u0628">>,
       <<"b","a","g">>,
       <<"u062d","u0642","u064a","u0628","u0629">>,
       <<"s","t","r","a","p">>,
       <<"u062d","u0632","u0627","u0645">>,
       <<"b","a","n","d">> >>

pattern_phone ==
    << <<"s","m","a","r","t","p","h","o","n","e">>,
       <<"m","o","b","i","l","e">>,
       <<"g","a","l","a","x","y">>,
       <<"i","p","h","o","n","e">>,
       <<"r","e","d","m","i">>,
       <<"n","o","t","e">>,
       <<"p","r","o">>,
       <<"p","l","u","s">>,
       <<"m","a","x">>,
       <<"u","l","t","r","a">> >>

pattern_laptop ==
    << <<"l","a","p","t","o","p">>,
       <<"n","o","t","e","b","o","o","k">>,
       <<"m","a","c","b","o","o","k">>,
       <<"t","h","i","n","k","p","a","d">>,
       <<"i","d","e","a","p","a","d">>,
       <<"v","i","v","o","b","o","o","k">> >>

pattern_shoes ==
    << <<"s","h","o","e">>,
       <<"s","n","e","a","k","e","r">>,
       <<"b","o","o","t">>,
       <<"n","i","k","e">>,
       <<"a","d","i","d","a","s">>,
       <<"p","u","m","a">>,
       <<"r","u","n","n","i","n","g">> >>

pattern_watch ==
    << <<"w","a","t","c","h">>,
       <<"s","m","a","r","t","w","a","t","c","h">>,
       <<"f","i","t","b","i","t">>,
       <<"g","a","r","m","i","n">> >>


\* The catalog row handed over by app.py: product_name (renamed from title),
\* price (cleaned, whole units) and rating_numeric (tenths of a star).
Row(name, price, rating) ==
    [product_name |-> name, price |-> price, rating_numeric |-> rating]

\* brand_variations.get(brand, [brand])
brand_variations(brand) ==
    IF brand = s_samsung THEN <<s_galaxy, s_samsung>>
    ELSE IF brand = s_apple THEN <<s_iphone, s_apple>>
    ELSE IF brand = s_xiaomi THEN <<s_redmi, s_poco, s_xiaomi>>
    ELSE <<brand>>

\* 1. Brand match: 30 for the brand itself, else 20 for the first variation found.
BrandPoints(product_name, brand) ==
    IF ~TruthyStr(brand) THEN 0
    ELSE IF Contains(product_name, Lower(brand)) THEN 30
    ELSE IF \E v \in 1..Len(brand_variations(brand)) :
                Contains(product_name, Lower(brand_variations(brand)[v]))
         THEN 20
         ELSE 0

\* ratio = product_price / max_price; 25 above 0.7, 20 above 0.5, else 15.
MaxPoints(product_price, max_price) ==
    IF TruthyInt(max_price) /\ product_price <= max_price[1]
    THEN IF 10 * product_price > 7 * max_price[1] THEN 25
         ELSE IF 10 * product_price > 5 * max_price[1] THEN 20
         ELSE 15
    ELSE 0

MinPoints(product_price, min_price) ==
    IF TruthyInt(min_price) /\ product_price >= min_price[1] THEN 5 ELSE 0

Abs(n) == IF n < 0 THEN -n ELSE n

\* diff_ratio = abs(product_price - target_price) / target_price
TargetPoints(product_price, target_price) ==
    IF TruthyInt(target_price)
    THEN IF 10 * Abs(product_price - target_price[1]) <= target_price[1] THEN 10
         ELSE IF 10 * Abs(product_price - target_price[1]) <= 2 * target_price[1] THEN 5
         ELSE 0
    ELSE 0

\* 2. Price fit, only for a positive price.
PricePoints(product_price, pr) ==
    IF product_price # 0 /\ product_price > 0
    THEN MaxPoints(product_price, pr.max)
         + MinPoints(product_price, pr.min)
         + TargetPoints(product_price, pr.target)
    ELSE 0

Min(a, b) == IF a <= b THEN a ELSE b

\* 3. Feature matching: 5 per feature value found in the name, capped at 20.
\* features is the dict as a sequence of <<key, value>> pairs.
FeaturePoints(product_name, features) ==
    Min(5 * Cardinality({f \in 1..Len(features) :
                            Contains(product_name, Lower(features[f][2]))}),
        20)

\* 4. Rating quality, in tenths of a point: (rating / 5.0) * 15.
RatingTenths(rating) == IF rating # 0 /\ rating > 0 THEN 3 * rating ELSE 0

\* 5. Color match.
ColorPoints(product_name, color) ==
    IF TruthyStr(color) /\ Contains(product_name, Lower(color)) THEN 10 ELSE 0

\* type_keywords.get(product_type, [product_type])
type_keywords(product_type) ==
    IF product_type = s_phone THEN <<s_phone, s_smartphone, s_mobile>>
    ELSE IF product_type = s_laptop THEN <<s_laptop, s_notebook>>
    ELSE IF product_type = s_shoes THEN <<s_shoe, s_sneaker, s_boot>>
    ELSE IF product_type = s_watch THEN <<s_watch>>
    ELSE <<product_type>>

\* 6. Product type match.
TypePoints(product_name, product_type) ==
    IF TruthyStr(product_type) /\ ContainsAny(product_name, type_keywords(product_type))
    THEN 5 ELSE 0

\* 7. Quality level match.
QualityPoints(product_price, quality_level) ==
    IF quality_level = s_cheap /\ product_price # 0 /\ product_price < 5000 THEN 5
    ELSE IF quality_level = s_premium /\ product_price # 0 /\ product_price > 15000 THEN 5
    ELSE 0

\* calculate_relevance_score, in tenths of a point (round(score, 2) keeps tenths).
calculate_relevance_score(product_row, a) ==
    Bind(Lower(product_row.product_name), LAMBDA product_name :
    Bind(product_row.price, LAMBDA product_price :
        10 * ( BrandPoints(product_name, a.brand)
             + PricePoints(product_price, a.price_range)
             + FeaturePoints(product_name, a.features)
             + ColorPoints(product_name, a.color)
             + TypePoints(product_name, a.product)
             + QualityPoints(product_price, a.quality_level) )
        + RatingTenths(product_row.rating_numeric)))

is_accessory(product_name) ==
    Bind(Lower(product_name), LAMBDA product_lower :
        ContainsAny(product_lower, accessory_keywords))

DeviceTypes == {s_phone, s_laptop, s_tablet, s_watch}

\* RemoveAccessories as it is without the accessory filter.
KeepAccessories(rows, product_type) == rows

\* result[~result["product_name"].apply(is_accessory)] for a device query
RemoveAccessories(rows, product_type) ==
    IF product_type \in DeviceTypes
    THEN SelectSeq(rows, LAMBDA r : ~is_accessory(r.product_name))
    ELSE rows

HasTypePattern(product_type) ==
    product_type \in {s_phone, s_laptop, s_shoes, s_watch}

type_patterns(product_type) ==
    IF product_type = s_phone THEN pattern_phone
    ELSE IF product_type = s_laptop THEN pattern_laptop
    ELSE IF product_type = s_shoes THEN pattern_shoes
    ELSE pattern_watch

\* TypeFilter that commits the filtered table even when it is empty.
TypeFilterStrict(rows, product_type) ==
    IF TruthyStr(product_type) /\ HasTypePattern(product_type)
    THEN SelectSeq(rows, LAMBDA r :
             ContainsAny(Lower(r.product_name), type_patterns(product_type)))
    ELSE rows

\* The product-type regex filter, applied only if it keeps something.
TypeFilter(rows, product_type) ==
    IF TruthyStr(product_type) /\ HasTypePattern(product_type)
    THEN Bind(SelectSeq(rows, LAMBDA r :
                  ContainsAny(Lower(r.product_name), type_patterns(product_type))),
              LAMBDA filtered : IF filtered # <<>> THEN filtered ELSE rows)
    ELSE rows

\* The brand substring filter, applied only if it keeps something.
BrandFilter(rows, brand) ==
    IF TruthyStr(brand)
    THEN Bind(SelectSeq(rows, LAMBDA r :
                  Contains(Lower(r.product_name), Lower(brand))),
              LAMBDA strict_filter : IF strict_filter # <<>> THEN strict_filter ELSE rows)
    ELSE rows

\* result[result["price"] <= price_range["max"]] when max is truthy
MaxFilter(rows, pr) ==
    IF TruthyInt(pr.max)
    THEN SelectSeq(rows, LAMBDA r : r.price <= pr.max[1])
    ELSE rows

\* MinFilter with the min price ignored.
MinFilterNever(rows, pr) == rows

\* result[result["price"] >= price_range["min"]] when min is truthy
MinFilter(rows, pr) ==
    IF TruthyInt(pr.min)
    THEN SelectSeq(rows, LAMBDA r : r.price >= pr.min[1])
    ELSE rows

\* Relax that applies the min price as well.
RelaxWithMin(rows, a) ==
    MinFilter(MaxFilter(RemoveAccessories(rows, a.product), a.price_range), a.price_range)

\* Relax without the accessory filter.
RelaxKeepAccessories(rows, a) == MaxFilter(rows, a.price_range)

\* The relaxed pass: the whole table again, accessories and max price only.
Relax(rows, a) ==
    MaxFilter(RemoveAccessories(rows, a.product), a.price_range)

\* result["relevance_score"] = result.apply(calculate_relevance_score)
WithScore(rows, a) ==
    [i \in 1..Len(rows) |->
        [product_name |-> rows[i].product_name,
         price |-> rows[i].price,
         rating_numeric |-> rows[i].rating_numeric,
         relevance_score |-> calculate_relevance_score(rows[i], a)]]

\* SortsBefore for a sort by relevance_score alone.
SortsBeforeScoreOnly(x, y) == x.relevance_score > y.relevance_score

\* The sort key order: relevance_score descending, then price ascending.
SortsBefore(x, y) ==
    \/ x.relevance_score > y.relevance_score
    \/ x.relevance_score = y.relevance_score /\ x.price < y.price

\* Insert x behind every row that does not sort after it (stable).
RECURSIVE Insert(_, _)
Insert(sorted, x) ==
    IF sorted = <<>> THEN <<x>>
    ELSE IF SortsBefore(x, Head(sorted)) THEN <<x>> \o sorted
    ELSE <<Head(sorted)>> \o Insert(Tail(sorted), x)

\* result.sort_values(by=["relevance_score", "price"], ascending=[False, True])
RECURSIVE sort_values(_)
sort_values(rows) ==
    IF rows = <<>> THEN <<>>
    ELSE Insert(sort_values(SubSeq(rows, 1, Len(rows) - 1)), rows[Len(rows)])

\* head that keeps one row too many.
headOneMore(rows, n) == SubSeq(rows, 1, Min(n + 1, Len(rows)))

\* result.head(top_n), top_n >= 0
head(rows, n) == SubSeq(rows, 1, Min(n, Len(rows)))

\* The return value of `if df.empty: return df`.
EarlyReturn(table) ==
    [after_accessory |-> <<>>, after_type |-> <<>>, after_brand |-> <<>>,
     after_price |-> <<>>, relaxed |-> FALSE, ranked |-> <<>>, out |-> table]

\* search_products_enhanced: the returned table (out) and the value of the
\* local `result` after each stage of the body.
search_products_enhanced(table, a, n) ==
    IF table = <<>> THEN EarlyReturn(table)
    ELSE
    Bind(RemoveAccessories(table, a.product), LAMBDA after_accessory :
    Bind(TypeFilter(after_accessory, a.product), LAMBDA after_type :
    Bind(BrandFilter(after_type, a.brand), LAMBDA after_brand :
    Bind(MinFilter(MaxFilter(after_brand, a.price_range), a.price_range), LAMBDA after_price :
    Bind(IF after_price = <<>> THEN Relax(table, a) ELSE after_price, LAMBDA survivors :
    Bind(IF survivors # <<>> THEN sort_values(WithScore(survivors, a)) ELSE survivors,
         LAMBDA ranked :
        [after_accessory |-> after_accessory, after_type |-> after_type,
         after_brand |-> after_brand, after_price |-> after_price,
         relaxed |-> after_price = <<>>, ranked |-> ranked,
         out |-> head(ranked, n)]))))))

-----------------------------------------------------------------------------
(* nlp/attribute_extraction_enhanced.py: PRICE_PATTERNS and extract_price_range *)

max_keywords ==
    << <<"u062a","u062d","u062a">>,
       <<"u0627","u0642","u0644"," ","u0645","u0646">>,
       <<"u","n","d","e","r">>,
       <<"b","e","l","o","w">>,
       <<"l","e","s","s"," ","t","h","a","n">> >>

min_keywords ==
    << <<"u0641","u0648","u0642">>,
       <<"u0627","u0643","u062b","u0631"," ","u0645","u0646">>,
       <<"a","b","o","v","e">>,
       <<"o","v","e","r">>,
       <<"m","o","r","e"," ","t","h","a","n">> >>

range_keywords ==
    << <<"u0645","u0646">>,
       <<"b","e","t","w","e","e","n">>,
       <<"f","r","o","m">> >>

range_separators ==
    << <<"u0627","u0644","u0649">>,
       <<"u0644","u0640">>,
       <<"t","o">>,
       <<"a","n","d">>,
       <<"-">> >>

target_keywords ==
    << <<"u062d","u0648","u0627","u0644","u064a">>,
       <<"u062a","u0642","u0631","u064a","u0628","u0627">>,
       <<"a","r","o","u","n","d">>,
       <<"a","p","p","r","o","x","i","m","a","t","e","l","y">>,
       <<"a","b","o","u","t">> >>

Digits == <<"0","1","2","3","4","5","6","7","8","9">>

\* \d
IsDigit(c) == \E d \in 1..Len(Digits) : Digits[d] = c

\* \s
IsSpace(c) == c \in {" ", "\t", "\n"}

DigitValue(c) == (CHOOSE d \in 1..Len(Digits) : Digits[d] = c) - 1

\* int(match.group(k))
RECURSIVE int(_)
int(digits) ==
    IF digits = <<>> THEN 0
    ELSE 10 * int(SubSeq(digits, 1, Len(digits) - 1)) + DigitValue(digits[Len(digits)])

\* The position behind a greedy \s* that starts at i.
RECURSIVE SkipSpaces(_, _)
SkipSpaces(s, i) ==
    IF i <= Len(s) /\ IsSpace(s[i]) THEN SkipSpaces(s, i + 1) ELSE i

\* The position behind a greedy \d* that starts at i.
RECURSIVE SkipDigits(_, _)
SkipDigits(s, i) ==
    IF i <= Len(s) /\ IsDigit(s[i]) THEN SkipDigits(s, i + 1) ELSE i

StartsWith(s, i, w) ==
    i + Len(w) - 1 <= Len(s) /\ SubSeq(s, i, i + Len(w) - 1) = w

\* \s*(\d+) at i: <<first, behind>> of the captured digits, or None.
NumberAt(s, i) ==
    Bind(SkipSpaces(s, i), LAMBDA j :
    Bind(SkipDigits(s, j), LAMBDA k :
        IF k > j THEN <<j, k>> ELSE None))

Minimum(S) == CHOOSE x \in S : \A y \in S : x <= y

\* (?:k1|k2|...)\s*(\d+) anchored at i: the span of group 1, or None.
\* The alternatives are tried in order.
KeywordNumberAt(s, i, keywords) ==
    Bind({a \in 1..Len(keywords) :
             /\ StartsWith(s, i, keywords[a])
             /\ NumberAt(s, i + Len(keywords[a])) # None}, LAMBDA ok :
        IF ok = {} THEN None
        ELSE NumberAt(s, i + Len(keywords[Minimum(ok)])))

\* re.search of (?:k1|...)\s*(\d+): <<group 1>> of the leftmost match, or None.
SearchKeywordNumber(s, keywords) ==
    Bind({i \in 1..Len(s) : KeywordNumberAt(s, i, keywords) # None}, LAMBDA at :
        IF at = {} THEN None
        ELSE Bind(KeywordNumberAt(s, Minimum(at), keywords), LAMBDA g :
                 <<SubSeq(s, g[1], g[2] - 1)>>))

\* (?:k1|...)\s*(\d+)\s*(?:sep1|...)\s*(\d+) anchored at i:
\* <<span of group 1, span of group 2>>, or None.
RangeAt(s, i) ==
    Bind(KeywordNumberAt(s, i, range_keywords), LAMBDA g1 :
        IF g1 = None THEN None
        ELSE Bind(KeywordNumberAt(s, SkipSpaces(s, g1[2]), range_separators), LAMBDA g2 :
                 IF g2 = None THEN None ELSE <<g1, g2>>))

\* re.search of the range pattern: <<group 1, group 2>> of the leftmost match, or None.
SearchRange(s) ==
    Bind({i \in 1..Len(s) : RangeAt(s, i) # None}, LAMBDA at :
        IF at = {} THEN None
        ELSE Bind(RangeAt(s, Minimum(at)), LAMBDA g :
                 <<SubSeq(s, g[1][1], g[1][2] - 1), SubSeq(s, g[2][1], g[2][2] - 1)>>))

\* PRICE_PATTERNS with the target pattern moved to the front of the list.
PRICE_PATTERNS_TargetFirst == <<"target", "max", "min", "range">>

\* PRICE_PATTERNS, in list order.
PRICE_PATTERNS == <<"max", "min", "range", "target">>

\* re.search(pattern, text_lower) for the pattern of the given type.
PatternMatch(ptype, text_lower) ==
    IF ptype = "max" THEN SearchKeywordNumber(text_lower, max_keywords)
    ELSE IF ptype = "min" THEN SearchKeywordNumber(text_lower, min_keywords)
    ELSE IF ptype = "range" THEN SearchRange(text_lower)
    ELSE SearchKeywordNumber(text_lower, target_keywords)

EmptyRange == [min |-> None, max |-> None, target |-> None]

\* The body of `if match:` for one pattern type.
ApplyMatch(r, ptype, match) ==
    IF ptype = "max" THEN [r EXCEPT !.max = Some(int(match[1]))]
    ELSE IF ptype = "min" THEN [r EXCEPT !.min = Some(int(match[1]))]
    ELSE IF ptype = "range"
         THEN [r EXCEPT !.min = Some(int(match[1])), !.max = Some(int(match[2]))]
    ELSE Bind(int(match[1]), LAMBDA target :
             [r EXCEPT !.target = Some(target),
                       \* int(target * 0.8) and int(target * 1.2)
                       !.min = Some((target * 8) \div 10),
                       !.max = Some((target * 12) \div 10)])

\* One iteration of `for pattern, ptype in PRICE_PATTERNS`.
PatternStep(r, ptype, text_lower) ==
    Bind(PatternMatch(ptype, text_lower), LAMBDA match :
        IF match # None THEN ApplyMatch(r, ptype, match) ELSE r)

\* The loop over the first n patterns; it has no break.
RECURSIVE PatternLoop(_, _)
PatternLoop(text_lower, n) ==
    IF n = 0 THEN EmptyRange
    ELSE PatternStep(PatternLoop(text_lower, n - 1), PRICE_PATTERNS[n], text_lower)

\* The loop with a break behind the first matching pattern.
RECURSIVE FirstMatchFrom(_, _)
FirstMatchFrom(text_lower, k) ==
    IF k > Len(PRICE_PATTERNS) THEN EmptyRange
    ELSE Bind(PatternMatch(PRICE_PATTERNS[k], text_lower), LAMBDA match :
             IF match # None THEN ApplyMatch(EmptyRange, PRICE_PATTERNS[k], match)
             ELSE FirstMatchFrom(text_lower, k + 1))

extract_price_range_first_match(t) ==
    Bind(Lower(t), LAMBDA text_lower : FirstMatchFrom(text_lower, 1))

extract_price_range(t) ==
    Bind(Lower(t), LAMBDA text_lower : PatternLoop(text_lower, Len(PRICE_PATTERNS)))

-----------------------------------------------------------------------------
(* crawl_multi_platform.py: crawl_all_platforms *)

Platforms == {"Amazon", "Noon", "Jumia"}

\* A listing as the adapter collected it and as it comes back from its temp CSV.
Listing(p, k) == [website |-> p, title |-> k]

\* What crawl_<platform>_to_csv did: raised, collected nothing (no CSV is
\* written), or wrote its collected rows to the temp CSV.
Raised == [kind |-> "raised", rows |-> <<>>]

Nothing == [kind |-> "nothing", rows |-> <<>>]

Wrote(rows) == [kind |-> "wrote", rows |-> rows]

\* The body of crawl_amazon / crawl_noon / crawl_jumia: what the future holds.
\* `except Exception` turns a raising adapter into [], as does a missing CSV.
crawl_platform(p, selected, did) ==
    IF p \notin selected THEN [kind |-> "result", rows |-> <<>>]
    ELSE IF did.kind = "raised" THEN [kind |-> "result", rows |-> <<>>]
    ELSE IF did.kind = "wrote" THEN [kind |-> "result", rows |-> did.rows]
    ELSE [kind |-> "result", rows |-> <<>>]

\* HandleFuture with `all_results = results` in place of all_results.extend(results).
HandleFutureOverwrite(all, fut) ==
    IF fut.kind = "exception" THEN [all |-> all, escaped |-> FALSE]
    ELSE IF fut.rows # <<>> THEN [all |-> fut.rows, escaped |-> FALSE]
    ELSE [all |-> all, escaped |-> FALSE]

\* HandleFuture taking only the first future that has rows: the result
\* depends on which task completes first.
HandleFutureKeepFirst(all, fut) ==
    IF fut.kind = "exception" THEN [all |-> all, escaped |-> FALSE]
    ELSE IF fut.rows # <<>> /\ all = <<>> THEN [all |-> fut.rows, escaped |-> FALSE]
    ELSE [all |-> all, escaped |-> FALSE]

\* One iteration of `for future in as_completed(futures)`: future.result()
\* inside try/except Exception, and all_results.extend(results) if results.
HandleFuture(all, fut) ==
    IF fut.kind = "exception" THEN [all |-> all, escaped |-> FALSE]
    ELSE IF fut.rows # <<>> THEN [all |-> all \o fut.rows, escaped |-> FALSE]
    ELSE [all |-> all, escaped |-> FALSE]

\* The header of the temp CSV crawl_<platform>_to_csv writes, and so the keys
\* of each record pd.read_csv(csv_path).to_dict("records") gives, in order.
fieldnames(p) ==
    IF p = "Amazon"
    THEN <<"title", "price", "rating", "image", "product_link",
           "description", "product_info_json", "search_query", "website">>
    ELSE <<"title", "price", "rating", "image", "product_link",
           "description", "search_query", "website">>

\* cols followed by those of keys[i..] it does not hold yet.
RECURSIVE AddKeys(_, _, _)
AddKeys(cols, keys, i) ==
    IF i > Len(keys) THEN cols
    ELSE IF \E j \in DOMAIN cols : cols[j] = keys[i] THEN AddKeys(cols, keys, i + 1)
    ELSE AddKeys(Append(cols, keys[i]), keys, i + 1)

\* pd.DataFrame(all_results).columns: the keys of the records, each where it
\* is first seen going through the records in order.
RECURSIVE DataFrameColumns(_)
DataFrameColumns(rows) ==
    IF rows = <<>> THEN <<>>
    ELSE AddKeys(DataFrameColumns(SubSeq(rows, 1, Len(rows) - 1)),
                 fieldnames(rows[Len(rows)].website), 1)

-----------------------------------------------------------------------------
(* nlp/utils.py: clean_price_egp; app.py: clean_price_column,              *)
(* extract_rating_numeric; live_search.py: clean_price_amazon              *)
(*                                                                         *)
(* A CSV cell is missing (NaN / None), a str or a number.  A float is the  *)
(* integer number of thousandths it stands for, so 29900.0 is 29900000.    *)

NaN == [kind |-> "nan", chars |-> <<>>, milli |-> 0]

Str(s) == [kind |-> "str", chars |-> s, milli |-> 0]

Num(m) == [kind |-> "num", chars |-> <<>>, milli |-> m]

\* pd.NA
NA == <<>>

UpperChar(c) ==
    Bind({i \in 1..Len(LowerCase) : LowerCase[i] = c}, LAMBDA at :
        IF at = {} THEN c ELSE UpperCase[CHOOSE i \in at : TRUE])

\* str.upper()
Upper(s) == SubSeq([i \in 1..Len(s) |-> UpperChar(s[i])], 1, Len(s))

\* The position of the last character that is not whitespace, 0 if none.
RECURSIVE SkipSpacesBack(_, _)
SkipSpacesBack(s, i) ==
    IF i >= 1 /\ IsSpace(s[i]) THEN SkipSpacesBack(s, i - 1) ELSE i

\* str.strip()
Strip(s) == SubSeq(s, SkipSpaces(s, 1), SkipSpacesBack(s, Len(s)))

\* The alternatives of r'(EGP|<u062c>\.<u0645>|<u062c><u0646><u064a><u0647>|POUND|LE|<u00a3>)', in order.
currency_markers ==
    << <<"E","G","P">>,
       <<"u062c",".","u0645">>,
       <<"u062c","u0646","u064a","u0647">>,
       <<"P","O","U","N","D">>,
       <<"L","E">>,
       <<"u00a3">> >>

\* re.sub(markers, '', s) from position i: leftmost matches, first alternative.
RECURSIVE RemoveMarkers(_, _)
RemoveMarkers(s, i) ==
    IF i > Len(s) THEN <<>>
    ELSE Bind({k \in 1..Len(currency_markers) : StartsWith(s, i, currency_markers[k])},
              LAMBDA hit :
                  IF hit = {} THEN <<s[i]>> \o RemoveMarkers(s, i + 1)
                  ELSE RemoveMarkers(s, i + Len(currency_markers[Minimum(hit)])))

\* parts = text.split('.'); parts[0] + '.' + ''.join(parts[1:]): every
\* decimal point behind the first one is removed.
RECURSIVE KeepFirstPoint(_, _)
KeepFirstPoint(s, seen) ==
    IF s = <<>> THEN <<>>
    ELSE IF Head(s) = "." /\ seen THEN KeepFirstPoint(Tail(s), TRUE)
    ELSE <<Head(s)>> \o KeepFirstPoint(Tail(s), seen \/ Head(s) = ".")

IsSeparator(c) == c = "," \/ IsSpace(c)

IsNoSeparator(c) == ~IsSeparator(c)

\* re.sub(r'[,\s]', '', text)
RemoveSeparators(s) == SelectSeq(s, IsNoSeparator)

\* The first three fraction digits as thousandths (the literals of the
\* model have at most three).
Thousandths(frac) ==
    int(SubSeq(frac \o <<"0","0","0">>, 1, 3))

\* float() of an unsigned decimal literal digits[.digits] or .digits:
\* the value in thousandths, or None for a ValueError.
UnsignedFloat(s) ==
    Bind(SkipDigits(s, 1), LAMBDA p :
        IF p > Len(s)
        THEN (IF p > 1 THEN Some(1000 * int(s)) ELSE None)
        ELSE IF s[p] # "." THEN None
        ELSE IF SkipDigits(s, p + 1) <= Len(s) THEN None
        ELSE IF Len(s) = 1 THEN None
        ELSE Some(1000 * int(SubSeq(s, 1, p - 1))
                  + Thousandths(SubSeq(s, p + 1, Len(s)))))

\* float(text): an optional sign and a decimal literal.
float(s) ==
    IF s = <<>> THEN None
    ELSE IF Head(s) = "-"
    THEN Bind(UnsignedFloat(Tail(s)), LAMBDA v : IF v = None THEN None ELSE Some(0 - v[1]))
    ELSE IF Head(s) = "+" THEN UnsignedFloat(Tail(s))
    ELSE UnsignedFloat(s)

\* round(value, 2) of a value in thousandths (no literal of the model has a
\* third fraction digit of 5).
Round2(m) == ((m + 5) \div 10) * 10

\* The string branch of clean_price_egp behind the empty/null test.
CleanPriceText(chars) ==
    Bind(Strip(RemoveMarkers(Strip(Upper(chars)), 1)), LAMBDA stripped :
        IF stripped = <<>> THEN NA
        ELSE Bind(RemoveSeparators(KeepFirstPoint(stripped, FALSE)), LAMBDA digits :
            IF digits = <<>> \/ digits = <<".">> THEN NA
            ELSE Bind(float(digits), LAMBDA value :
                IF value = None THEN NA
                ELSE IF 10 <= value[1] /\ value[1] <= 1000000000
                THEN Some(Round2(value[1]))
                ELSE NA)))

clean_price_egp(raw_price) ==
    IF raw_price.kind = "nan" THEN NA
    ELSE IF raw_price.kind = "str" /\ raw_price.chars = <<>> THEN NA
    ELSE IF raw_price.kind = "num"
    THEN (IF raw_price.milli > 0 THEN Some(raw_price.milli) ELSE NA)
    ELSE CleanPriceText(raw_price.chars)

\* A row of the table: the raw cells and the columns computed from them.
Listed(row, price, rating_numeric) ==
    [raw_price |-> row.price, raw_rating |-> row.rating,
     price |-> price, rating_numeric |-> rating_numeric]

HasPrice(row) == row.price # NA

\* df["price"] = df["price"].apply(clean_price_egp); df.dropna(subset=["price"])
clean_price_column(rows) ==
    SelectSeq([i \in 1..Len(rows) |->
                  Listed(rows[i], clean_price_egp(rows[i].price), None)],
              HasPrice)

\* x.replace(old, "") from position i.
RECURSIVE Replace(_, _, _)
Replace(s, old, i) ==
    IF i > Len(s) THEN <<>>
    ELSE IF StartsWith(s, i, old) THEN Replace(s, old, i + Len(old))
    ELSE <<s[i]>> \o Replace(s, old, i + 1)

IsNoBlankOrComma(c) == c # " " /\ c # ","

\* re.sub(r"[^\d]", "", x)
KeepDigits(s) == SelectSeq(s, IsDigit)

\* The string branch of clean_price_amazon: the digits of the text as an
\* integer number of hundredths.
AmazonText(chars) ==
    Bind(KeepDigits(SelectSeq(
            Strip(Replace(Replace(Replace(chars, <<"E","G","P">>, 1),
                                  <<"u062c",".","u0645">>, 1),
                          <<"u062c","u0646","u064a","u0647">>, 1)),
            IsNoBlankOrComma)),
         LAMBDA x : IF x = <<>> THEN NA ELSE Some(Round2(int(x) * 10)))

\* clean_price_amazon without the division by 100 (the general cleaner).
clean_price_amazon_units(raw) == clean_price_egp(raw)

\* pd.to_numeric(raw, errors="coerce") of a cell that is not a str keeps a
\* number and turns a missing cell into NaN, which dropna drops like pd.NA.
clean_price_amazon(raw) ==
    IF raw.kind = "nan" THEN NA
    ELSE IF raw.kind = "num" THEN Some(raw.milli)
    ELSE AmazonText(raw.chars)

\* live_search: df["price"].apply(clean_price_amazon); dropna(subset=["price"])
live_search_clean(rows) ==
    SelectSeq([i \in 1..Len(rows) |->
                  Listed(rows[i], clean_price_amazon(rows[i].price), None)],
              HasPrice)

\* The positions of s that hold a digit.
DigitPositions(s) == {i \in 1..Len(s) : IsDigit(s[i])}

\* re.search(r'(\d+\.?\d*)', s): the matched text, or None.
RatingMatch(s) ==
    IF DigitPositions(s) = {} THEN None
    ELSE Bind(Minimum(DigitPositions(s)), LAMBDA first :
         Bind(SkipDigits(s, first), LAMBDA p :
             IF p <= Len(s) /\ s[p] = "."
             THEN Some(SubSeq(s, first, SkipDigits(s, p + 1) - 1))
             ELSE Some(SubSeq(s, first, p - 1))))

Max(a, b) == IF a >= b THEN a ELSE b

\* float(match.group(1)) of a match of \d+\.?\d*, which float always accepts.
MatchValue(m) ==
    Bind(SkipDigits(m, 1), LAMBDA p :
        1000 * int(SubSeq(m, 1, p - 1)) + Thousandths(SubSeq(m, p + 1, Len(m))))

extract_rating_numeric(rating_str) ==
    IF rating_str.kind = "nan" THEN 0
    ELSE IF rating_str.kind = "num" THEN rating_str.milli
    ELSE Bind(RatingMatch(rating_str.chars), LAMBDA match :
        IF match = None THEN 0
        ELSE Min(5000, Max(0, MatchValue(match[1]))))

\* results["rating_numeric"] = results["rating"].apply(extract_rating_numeric)
rating_numeric_column(rows) ==
    [i \in 1..Len(rows) |->
        [rows[i] EXCEPT !.rating_numeric = Some(extract_rating_numeric(rows[i].raw_rating))]]

-----------------------------------------------------------------------------
(* nlp/preprocessing.py: preprocess_text *)

\* The code points U+0600 .. U+06FF.
arabic_block ==
    {"u0600","u0601","u0602","u0603","u0604","u0605","u0606","u0607","u0608","u0609",
     "u060a","u060b","u060c","u060d","u060e","u060f","u0610","u0611","u0612","u0613",
     "u0614","u0615","u0616","u0617","u0618","u0619","u061a","u061b","u061c","u061d",
     "u061e","u061f","u0620","u0621","u0622","u0623","u0624","u0625","u0626","u0627",
     "u0628","u0629","u062a","u062b","u062c","u062d","u062e","u062f","u0630","u0631",
     "u0632","u0633","u0634","u0635","u0636","u0637","u0638","u0639","u063a","u063b",
     "u063c","u063d","u063e","u063f","u0640","u0641","u0642","u0643","u0644","u0645",
     "u0646","u0647","u0648","u0649","u064a","u064b","u064c","u064d","u064e","u064f",
     "u0650","u0651","u0652","u0653","u0654","u0655","u0656","u0657","u0658","u0659",
     "u065a","u065b","u065c","u065d","u065e","u065f","u0660","u0661","u0662","u0663",
     "u0664","u0665","u0666","u0667","u0668","u0669","u066a","u066b","u066c","u066d",
     "u066e","u066f","u0670","u0671","u0672","u0673","u0674","u0675","u0676","u0677",
     "u0678","u0679","u067a","u067b","u067c","u067d","u067e","u067f","u0680","u0681",
     "u0682","u0683","u0684","u0685","u0686","u0687","u0688","u0689","u068a","u068b",
     "u068c","u068d","u068e","u068f","u0690","u0691","u0692","u0693","u0694","u0695",
     "u0696","u0697","u0698","u0699","u069a","u069b","u069c","u069d","u069e","u069f",
     "u06a0","u06a1","u06a2","u06a3","u06a4","u06a5","u06a6","u06a7","u06a8","u06a9",
     "u06aa","u06ab","u06ac","u06ad","u06ae","u06af","u06b0","u06b1","u06b2","u06b3",
     "u06b4","u06b5","u06b6","u06b7","u06b8","u06b9","u06ba","u06bb","u06bc","u06bd",
     "u06be","u06bf","u06c0","u06c1","u06c2","u06c3","u06c4","u06c5","u06c6","u06c7",
     "u06c8","u06c9","u06ca","u06cb","u06cc","u06cd","u06ce","u06cf","u06d0","u06d1",
     "u06d2","u06d3","u06d4","u06d5","u06d6","u06d7","u06d8","u06d9","u06da","u06db",
     "u06dc","u06dd","u06de","u06df","u06e0","u06e1","u06e2","u06e3","u06e4","u06e5",
     "u06e6","u06e7","u06e8","u06e9","u06ea","u06eb","u06ec","u06ed","u06ee","u06ef",
     "u06f0","u06f1","u06f2","u06f3","u06f4","u06f5","u06f6","u06f7","u06f8","u06f9",
     "u06fa","u06fb","u06fc","u06fd","u06fe","u06ff"}

\* "ar" if some character is in U+0600 .. U+06FF, else "en".
detect_lang(s) == IF \E i \in 1..Len(s) : s[i] \in arabic_block THEN "ar" ELSE "en"

ARABIC_STOPWORDS ==
    {<<"u0623","u0645">>, <<"u0623","u0645","u0627">>, <<"u0623","u0646">>,
     <<"u0623","u064a">>, <<"u0623","u064a","u0647">>, <<"u0625","u0630","u0627">>,
     <<"u0625","u0644","u064a">>, <<"u0625","u0646">>, <<"u0627","u0630","u0627">>,
     <<"u0627","u0644","u062a","u064a">>, <<"u0627","u0644","u0630","u064a">>,
     <<"u0627","u0644","u0630","u064a","u0646">>,
     <<"u0627","u0644","u0644","u0627","u062a","u064a">>,
     <<"u0627","u0644","u0644","u062a","u0627","u0646">>,
     <<"u0627","u0644","u0644","u0630","u0627","u0646">>,
     <<"u0627","u0644","u0644","u0648","u0627","u062a","u064a">>,
     <<"u0627","u0644","u0649">>, <<"u0627","u0645">>, <<"u0627","u0645","u0627">>,
     <<"u0627","u0646">>, <<"u0627","u0646","u0627">>, <<"u0627","u0646","u062a">>,
     <<"u0627","u0646","u062a","u0645">>, <<"u0627","u0646","u062a","u0646">>,
     <<"u0627","u0646","u062a","u064a">>, <<"u0627","u0646","u0647","u0645">>,
     <<"u0627","u0646","u0647","u0645","u0627">>, <<"u0627","u0648">>, <<"u0627","u0649">>,
     <<"u0627","u064a">>, <<"u0627","u064a","u0647">>, <<"u0628","u0639","u062f">>,
     <<"u0628","u0639","u0636">>, <<"u0628","u0644">>,
     <<"u0628","u064a","u0646","u0645","u0627">>, <<"u062a","u0643","u0648","u0646">>,
     <<"u062a","u0643","u0648","u0646","u0648","u0627">>,
     <<"u062a","u0643","u0648","u0646","u064a","u0646">>, <<"u062a","u0644","u0643">>,
     <<"u062b","u0645">>, <<"u062d","u062a","u0649">>, <<"u062d","u062a","u064a">>,
     <<"u062d","u064a","u062b">>, <<"u062d","u064a","u0646">>,
     <<"u062e","u0644","u0627","u0644">>, <<"u062f","u0648","u0646">>,
     <<"u0630","u0644","u0643">>, <<"u0633","u0645","u062d","u062a">>,
     <<"u0633","u0645","u062d","u062a","u0645">>,
     <<"u0633","u0645","u062d","u062a","u064a">>, <<"u0633","u0648","u0649">>,
     <<"u0636","u062f">>, <<"u0639","u0627","u0648","u0632">>,
     <<"u0639","u0627","u0648","u0632","u0647">>,
     <<"u0639","u0627","u0648","u0632","u064a","u0646">>,
     <<"u0639","u0627","u064a","u0632">>, <<"u0639","u0627","u064a","u0632","u0647">>,
     <<"u0639","u0627","u064a","u0632","u0647","u0627">>,
     <<"u0639","u0627","u064a","u0632","u0647","u0645">>,
     <<"u0639","u0627","u064a","u0632","u064a","u0646">>, <<"u0639","u0644","u0649">>,
     <<"u0639","u0646">>, <<"u0639","u0646","u062f">>,
     <<"u0639","u0646","u062f","u0645","u0627">>, <<"u063a","u064a","u0631">>,
     <<"u0641","u0642","u0637">>, <<"u0641","u064a">>, <<"u0642","u0628","u0644">>,
     <<"u0642","u062f">>, <<"u0643","u0627","u0646">>, <<"u0643","u0627","u0646","u062a">>,
     <<"u0643","u0627","u0646","u0648","u0627">>, <<"u0643","u0644">>,
     <<"u0643","u0645","u0627">>, <<"u0643","u0646","u0627">>, <<"u0643","u0646","u062a">>,
     <<"u0644","u0623","u0646">>, <<"u0644","u0627">>, <<"u0644","u0627","u0646">>,
     <<"u0644","u062f","u0649">>, <<"u0644","u0633","u062a">>, <<"u0644","u0642","u062f">>,
     <<"u0644","u0643","u0646">>, <<"u0644","u0645">>, <<"u0644","u0645","u0627">>,
     <<"u0644","u0646">>, <<"u0644","u0648">>, <<"u0644","u064a","u0633">>,
     <<"u0645","u062d","u062a","u0627","u062c">>,
     <<"u0645","u062d","u062a","u0627","u062c","u0647">>,
     <<"u0645","u062d","u062a","u0627","u062c","u064a","u0646">>, <<"u0645","u0639">>,
     <<"u0645","u0646">>, <<"u0645","u0646","u0630">>, <<"u0646","u062d","u0646">>,
     <<"u0647","u0624","u0644","u0627","u0621">>, <<"u0647","u0630","u0627">>,
     <<"u0647","u0630","u0647">>, <<"u0647","u0630","u064a">>, <<"u0647","u0645">>,
     <<"u0647","u0646">>, <<"u0647","u0646","u0627">>, <<"u0647","u0646","u0627","u0643">>,
     <<"u0647","u0648">>, <<"u0647","u064a">>, <<"u0648">>, <<"u0648","u0642","u062f">>,
     <<"u064a","u0643","u0648","u0646">>,
     <<"u064a","u0643","u0648","u0646","u0648","u0627">>}

ENGLISH_STOPWORDS ==
    {<<"a">>, <<"a","b","o","u","t">>, <<"a","b","o","v","e">>, <<"a","m">>, <<"a","n">>,
     <<"a","n","d">>, <<"a","r","e">>, <<"a","r","o","u","n","d">>, <<"a","s">>, <<"a","t">>,
     <<"b","e">>, <<"b","e","e","n">>, <<"b","e","i","n","g">>, <<"b","e","l","o","w">>,
     <<"b","e","t","w","e","e","n">>, <<"b","u","t">>, <<"b","y">>, <<"c","a","n">>,
     <<"c","o","u","l","d">>, <<"d","i","d">>, <<"d","o">>, <<"d","o","n","e">>,
     <<"d","o","w","n">>, <<"f","o","r">>, <<"f","r","o","m">>, <<"h","a","d">>,
     <<"h","a","s">>, <<"h","a","v","e">>, <<"h","a","v","i","n","g">>, <<"h","e">>,
     <<"h","e","r">>, <<"h","e","r","e">>, <<"h","e","r","s">>, <<"h","i","m">>,
     <<"h","i","s">>, <<"i">>, <<"i","f">>, <<"i","n">>, <<"i","n","t","o">>, <<"i","s">>,
     <<"j","u","s","t">>, <<"l","e","s","s">>, <<"l","i","k","e">>, <<"m","a","y">>,
     <<"m","e">>, <<"m","i","g","h","t">>, <<"m","o","r","e">>, <<"m","y">>,
     <<"n","e","e","d">>, <<"o","f">>, <<"o","n">>, <<"o","r">>, <<"o","u","r">>,
     <<"o","u","r","s">>, <<"o","u","t">>, <<"o","v","e","r">>, <<"r","e","a","l","l","y">>,
     <<"s","h","e">>, <<"s","h","o","u","l","d">>, <<"s","o">>, <<"s","u","c","h">>,
     <<"t","h","a","n">>, <<"t","h","a","t">>, <<"t","h","e">>, <<"t","h","e","i","r">>,
     <<"t","h","e","i","r","s">>, <<"t","h","e","m">>, <<"t","h","e","n">>,
     <<"t","h","e","r","e">>, <<"t","h","e","s","e">>, <<"t","h","e","y">>,
     <<"t","h","i","s">>, <<"t","h","o","s","e">>, <<"t","o">>, <<"u","n","d","e","r">>,
     <<"u","p">>, <<"v","e","r","y">>, <<"w","a","n","t">>, <<"w","a","s">>, <<"w","e">>,
     <<"w","e","r","e">>, <<"w","h","i","l","e">>, <<"w","i","l","l">>, <<"w","i","t","h">>,
     <<"w","o","u","l","d">>, <<"y","o","u">>, <<"y","o","u","r">>, <<"y","o","u","r","s">>}

\* ARABIC_DIACRITICS: U+0617 .. U+061A and U+064B .. U+0652
ARABIC_DIACRITICS ==
    {"u0617","u0618","u0619","u061a","u064b","u064c","u064d","u064e","u064f","u0650",
     "u0651","u0652"}

ARABIC_TATWEEL == "u0640"

ARABIC_DIGITS == <<"u0660","u0661","u0662","u0663","u0664","u0665","u0666","u0667","u0668","u0669">>

\* The character replacements of normalize_arabic: alef, yeh, waw and teh
\* marbuta forms are unified, Arabic digits become ASCII digits.
NormalizeArabicChar(c) ==
    IF c \in {"u0625","u0623","u0622"} THEN "u0627"
    ELSE IF c \in {"u0649","u0626"} THEN "u064a"
    ELSE IF c = "u0624" THEN "u0648"
    ELSE IF c = "u0629" THEN "u0647"
    ELSE IF \E d \in 1..Len(ARABIC_DIGITS) : ARABIC_DIGITS[d] = c
    THEN Digits[CHOOSE d \in 1..Len(ARABIC_DIGITS) : ARABIC_DIGITS[d] = c]
    ELSE c

IsNoDiacritic(c) == c \notin ARABIC_DIACRITICS /\ c # ARABIC_TATWEEL

normalize_arabic(s) ==
    Bind(SelectSeq(s, IsNoDiacritic), LAMBDA kept :
        SubSeq([i \in 1..Len(kept) |-> NormalizeArabicChar(kept[i])], 1, Len(kept)))

normalize_english(s) == Lower(s)

\* The characters of U+0600 .. U+06FF that \w matches.
arabic_word_chars ==
    {"u0620","u0621","u0622","u0623","u0624","u0625","u0626","u0627","u0628","u0629",
     "u062a","u062b","u062c","u062d","u062e","u062f","u0630","u0631","u0632","u0633",
     "u0634","u0635","u0636","u0637","u0638","u0639","u063a","u063b","u063c","u063d",
     "u063e","u063f","u0640","u0641","u0642","u0643","u0644","u0645","u0646","u0647",
     "u0648","u0649","u064a","u0660","u0661","u0662","u0663","u0664","u0665","u0666",
     "u0667","u0668","u0669","u066e","u066f","u0671","u0672","u0673","u0674","u0675",
     "u0676","u0677","u0678","u0679","u067a","u067b","u067c","u067d","u067e","u067f",
     "u0680","u0681","u0682","u0683","u0684","u0685","u0686","u0687","u0688","u0689",
     "u068a","u068b","u068c","u068d","u068e","u068f","u0690","u0691","u0692","u0693",
     "u0694","u0695","u0696","u0697","u0698","u0699","u069a","u069b","u069c","u069d",
     "u069e","u069f","u06a0","u06a1","u06a2","u06a3","u06a4","u06a5","u06a6","u06a7",
     "u06a8","u06a9","u06aa","u06ab","u06ac","u06ad","u06ae","u06af","u06b0","u06b1",
     "u06b2","u06b3","u06b4","u06b5","u06b6","u06b7","u06b8","u06b9","u06ba","u06bb",
     "u06bc","u06bd","u06be","u06bf","u06c0","u06c1","u06c2","u06c3","u06c4","u06c5",
     "u06c6","u06c7","u06c8","u06c9","u06ca","u06cb","u06cc","u06cd","u06ce","u06cf",
     "u06d0","u06d1","u06d2","u06d3","u06d5","u06e5","u06e6","u06ee","u06ef","u06f0",
     "u06f1","u06f2","u06f3","u06f4","u06f5","u06f6","u06f7","u06f8","u06f9","u06fa",
     "u06fb","u06fc","u06ff"}

\* \w
IsWordChar(c) ==
    \/ IsDigit(c)
    \/ c = "_"
    \/ \E i \in 1..Len(LowerCase) : LowerCase[i] = c \/ UpperCase[i] = c
    \/ c \in arabic_word_chars

\* clean_common: every character that is neither \w nor \s becomes a blank
\* (the query texts of the model hold no URL and no e-mail address, which the
\* three substitutions before would blank as a whole).
clean_common(s) ==
    Strip(SubSeq([i \in 1..Len(s) |->
                     IF IsWordChar(s[i]) \/ IsSpace(s[i]) THEN s[i] ELSE " "], 1, Len(s)))

\* The position behind the run of \w that starts at i.
RECURSIVE SkipWord(_, _)
SkipWord(s, i) ==
    IF i <= Len(s) /\ IsWordChar(s[i]) THEN SkipWord(s, i + 1) ELSE i

\* TOKEN_PATTERN.findall(text) from position i: the maximal runs of \w.
RECURSIVE tokenize(_, _)
tokenize(s, i) ==
    IF i > Len(s) THEN <<>>
    ELSE IF ~IsWordChar(s[i]) THEN tokenize(s, i + 1)
    ELSE <<SubSeq(s, i, SkipWord(s, i) - 1)>> \o tokenize(s, SkipWord(s, i))

IsNoArabicStopword(t) == t \notin ARABIC_STOPWORDS

IsNoEnglishStopword(t) == t \notin ENGLISH_STOPWORDS

remove_stopwords(toks, lg) ==
    IF lg = "ar" THEN SelectSeq(toks, IsNoArabicStopword)
    ELSE SelectSeq(toks, IsNoEnglishStopword)

\* AR_PHRASE_MAP as a set of <<first, second, merged>>.
AR_PHRASE_MAP ==
    {<<<<"u0627","u0642","u0644">>, <<"u0645","u0646">>, <<"u0627","u0642","u0644","_","u0645","u0646">>>>,
     <<<<"u0627","u0642","u0644">>, <<"u0639","u0646">>, <<"u0627","u0642","u0644","_","u0645","u0646">>>>,
     <<<<"u062a","u062d","u062a">>, <<"u062d","u062f">>, <<"u062a","u062d","u062a","_","u062d","u062f">>>>}

EN_PHRASE_MAP ==
    {<<<<"l","e","s","s">>, <<"t","h","a","n">>, <<"l","e","s","s","_","t","h","a","n">>>>,
     <<<<"u","n","d","e","r">>, <<"t","h","a","n">>, <<"u","n","d","e","r","_","t","h","a","n">>>>,
     <<<<"u","p">>, <<"t","o">>, <<"u","p","_","t","o">>>>}

\* merge_phrases from position i over phrase_map.
RECURSIVE MergeFrom(_, _, _)
MergeFrom(toks, i, phrase_map) ==
    IF i > Len(toks) THEN <<>>
    ELSE Bind({ph \in phrase_map :
                  i < Len(toks) /\ ph[1] = toks[i] /\ ph[2] = toks[i + 1]},
              LAMBDA hit :
                  IF hit # {}
                  THEN <<(CHOOSE ph \in hit : TRUE)[3]>> \o MergeFrom(toks, i + 2, phrase_map)
                  ELSE <<toks[i]>> \o MergeFrom(toks, i + 1, phrase_map))

merge_phrases(toks, lg) ==
    MergeFrom(toks, 1, IF lg = "ar" THEN AR_PHRASE_MAP ELSE EN_PHRASE_MAP)

\* tokens = [t.lower() for t in toks]
LowerAll(toks) == SubSeq([i \in 1..Len(toks) |-> Lower(toks[i])], 1, Len(toks))

\* Steps 2 to 4 of preprocess_text: strip, normalise, clean.
NormalizedText(s, lg) ==
    clean_common(IF lg = "ar" THEN Lower(normalize_arabic(Strip(s)))
                 ELSE normalize_english(Strip(s)))

\* preprocess_text: the toks and the language tag.
preprocess_text(s) ==
    Bind(detect_lang(s), LAMBDA lg :
        [lang |-> lg,
         tokens |-> merge_phrases(
                        remove_stopwords(LowerAll(tokenize(NormalizedText(s, lg), 1)), lg),
                        lg)])

-----------------------------------------------------------------------------
(* app.py: the search block up to the call of crawl_all_platforms *)

\* " ".join(tokens)
RECURSIVE Join(_)
Join(toks) ==
    IF toks = <<>> THEN <<>>
    ELSE IF Len(toks) = 1 THEN toks[1]
    ELSE toks[1] \o <<" ">> \o Join(Tail(toks))

\* QueryMissing with the test `if not query` dropped.
QueryMissingNever(q) == FALSE

\* `if not query`
QueryMissing(q) == q = <<>>

\* Step 5, "Load and process results": raw_results as it goes on to cleaning
\* and ranking, or None where st.stop() follows the no_products warning.
\* crawled is what crawl_all_platforms returned, file is csv_path: None if
\* there is no such file (pd.read_csv raises), else its rows.
LoadResults(crawled, file) ==
    IF crawled # <<>> THEN Some(crawled)
    ELSE IF file = None THEN None
    ELSE IF file[1] = <<>> THEN None
    ELSE Some(file[1])

-----------------------------------------------------------------------------
(* crawlir.py, crawl_noon.py, crawl_jumia.py: fetch_with_retry *)

\* What one session.get can do: answer with a status (200, 429 or another
\* one, here 500), or raise requests.Timeout or another RequestException.
GetOutcomes == {"200", "429", "500", "timeout", "error"}

\* 2 ** n
RECURSIVE Pow2(_)
Pow2(n) == IF n = 0 THEN 1 ELSE 2 * Pow2(n - 1)

\* HandleResponse that takes every answer with a status for a success.
HandleResponseAnyStatus(a, retries, outcome) ==
    IF outcome \in {"200", "429", "500"}
    THEN [returns |-> TRUE, value |-> Some(outcome), sleep |-> None]
    ELSE IF a = retries - 1
    THEN [returns |-> TRUE, value |-> None, sleep |-> None]
    ELSE [returns |-> FALSE, value |-> None, sleep |-> Some(Pow2(a))]

\* HandleResponse with the backoff of the other failures on HTTP 429.
HandleResponseSameBackoff(a, retries, outcome) ==
    IF outcome = "200"
    THEN [returns |-> TRUE, value |-> Some(outcome), sleep |-> None]
    ELSE IF outcome = "429"
    THEN [returns |-> FALSE, value |-> None, sleep |-> Some(Pow2(a))]
    ELSE IF a = retries - 1
    THEN [returns |-> TRUE, value |-> None, sleep |-> None]
    ELSE [returns |-> FALSE, value |-> None, sleep |-> Some(Pow2(a))]

\* The body of `for attempt in range(max_retries)` behind session.get:
\* whether the function returns, what it returns, and the time.sleep before
\* the next attempt.
HandleResponse(a, retries, outcome) ==
    IF outcome = "200"
    THEN [returns |-> TRUE, value |-> Some(outcome), sleep |-> None]
    ELSE IF outcome = "429"
    THEN [returns |-> FALSE, value |-> None, sleep |-> Some(Pow2(a) * 2)]
    ELSE IF a = retries - 1
    THEN [returns |-> TRUE, value |-> None, sleep |-> None]
    ELSE [returns |-> FALSE, value |-> None, sleep |-> Some(Pow2(a))]

-----------------------------------------------------------------------------
(* crawlir.py: crawl_amazon_to_csv, _fetch_and_merge; crawl_noon.py:       *)
(* crawl_noon_to_csv; crawl_jumia.py: crawl_jumia_to_csv                   *)
(*                                                                         *)
(* A field of a listing is "" or a value; the value says where it came     *)
(* from: "search" (the search-result item) or "detail" (the product page). *)

Sites == {"Amazon", "Noon", "Jumia"}

\* extract_from_result_item of an item whose markup has every field.
full_item ==
    [title |-> "search", price |-> "search", rating |-> "search",
     image_url |-> "search", product_link |-> "link"]

\* ... of an item without price and rating.
partial_item ==
    [title |-> "search", price |-> "", rating |-> "",
     image_url |-> "search", product_link |-> "link"]

\* ... of an item without a link ("Link not available" on Amazon, "" on
\* Noon and Jumia), written "" here.
unlinked_item ==
    [title |-> "search", price |-> "search", rating |-> "",
     image_url |-> "search", product_link |-> ""]

\* extract_from_product_page of a product page that has every field.
full_page ==
    [title_full |-> "detail", price_full |-> "detail", rating_full |-> "detail",
     image_primary |-> "detail"]

\* ... of a product page on which no selector matches.
bare_page ==
    [title_full |-> "", price_full |-> "", rating_full |-> "", image_primary |-> ""]

\* What the fetch of a product page gives: None after the retries, or the
\* extracted details.
DetailOutcomes == {None, Some(full_page), Some(bare_page)}

\* a or b
Or(a, b) == IF a # "" THEN a ELSE b

\* crawlir.py _fetch_and_merge: the merged item with its image_primary.
\* details always has the key image_primary, so details.get("image_primary",
\* base_item.get("image_url", "")) is its value, also when that is "".
fetch_and_merge(base_item, html) ==
    IF base_item.product_link = "" \/ html = None
    THEN [title |-> base_item.title, price |-> base_item.price,
          rating |-> base_item.rating, image_url |-> base_item.image_url,
          image_primary |-> base_item.image_url]
    ELSE [title |-> Or(html[1].title_full, base_item.title),
          price |-> Or(html[1].price_full, base_item.price),
          rating |-> Or(html[1].rating_full, base_item.rating),
          image_url |-> base_item.image_url,
          image_primary |-> html[1].image_primary]

\* crawl_noon.py / crawl_jumia.py fetch_detail: the merged item.
fetch_detail(base_item, html) ==
    IF base_item.product_link = "" \/ html = None
    THEN [title |-> base_item.title, price |-> base_item.price,
          rating |-> base_item.rating, image_url |-> base_item.image_url,
          image_primary |-> ""]
    ELSE [title |-> Or(html[1].title_full, base_item.title),
          price |-> Or(html[1].price_full, base_item.price),
          rating |-> Or(html[1].rating_full, base_item.rating),
          image_url |-> Or(html[1].image_primary, base_item.image_url),
          image_primary |-> ""]

\* The row appended to collected; base is the search-result item it came
\* from, page and item say which one that was.
Row4(page, item, base_item, title, price, rating, image) ==
    [page |-> page, item |-> item, base |-> base_item,
     title |-> title, price |-> price, rating |-> rating, image |-> image]

\* collected.append({...}) in detailed mode: Amazon takes image_primary of
\* the merged item, Noon and Jumia take image_url.
DetailedRow(where, page, item, base_item, html) ==
    IF where = "Amazon"
    THEN Bind(fetch_and_merge(base_item, html), LAMBDA merged :
            Row4(page, item, base_item,
                 merged.title, merged.price, merged.rating, merged.image_primary))
    ELSE Bind(fetch_detail(base_item, html), LAMBDA merged :
            Row4(page, item, base_item,
                 merged.title, merged.price, merged.rating, merged.image_url))

\* collected.append({...}) without detailed fetching.
BasicRow(page, item, base_item) ==
    Row4(page, item, base_item,
         base_item.title, base_item.price, base_item.rating, base_item.image_url)

\* FailedFetch with `continue` in the place of `break`: the failed page is
\* skipped and the loop goes on with the next one.
FailedFetchSkipsPage(number) == [loop_pc |-> "loop", page_number |-> number + 1]

\* `if not response: print("Failed to fetch page ... Stopping."); break`:
\* where the loop stands after the fetch of search page `number` failed.
FailedFetch(number) == [loop_pc |-> "save", page_number |-> number]

\* ReachedLimit with max_products ignored.
ReachedLimitNever(limit, count) == FALSE

\* ReachedLimit without the `max_products and` guard.
ReachedLimitUnguarded(limit, count) == count >= limit

\* `if max_products and fetched_products >= max_products`
ReachedLimit(limit, count) == limit # 0 /\ count >= limit

\* PastBudget with the page budget ignored.
PastBudgetNever(budget, number) == FALSE

\* `if pages and page_number > pages`
PastBudget(budget, number) == budget # 0 /\ number > budget

\* `for base in page_bases:` of the branch without detailed fetching, from
\* item i on: append, count, and break once the limit is reached.
RECURSIVE AppendBasic(_, _, _, _, _)
AppendBasic(rows, bases, i, page, limit) ==
    IF i > Len(bases) THEN rows
    ELSE IF ReachedLimit(limit, Len(rows) + 1)
    THEN Append(rows, BasicRow(page, i, bases[i]))
    ELSE AppendBasic(Append(rows, BasicRow(page, i, bases[i])), bases, i + 1, page, limit)

(* crawl_noon.py: extract_from_result_item                                 *)
(*                                                                         *)
(* An element of the item's markup is the sequence of its text nodes; what *)
(* item.select_one(selector) gives is None or an element.                  *)

title_selectors ==
    <<"h3", "h2", "a[data-testid='product-title']",
      ".productTitle", "[class*='title']", "div[class*='name']">>

price_selectors ==
    <<"[data-testid='price']", ".price", "[class*='price']",
      "span[class*='currency']", ".amount">>

rating_selectors ==
    <<"[data-testid='rating']", ".rating", "[class*='rating']",
      "[class*='star']", ".reviews">>

\* The position behind a run of non-whitespace that starts at i.
RECURSIVE SkipNonSpaces(_, _)
SkipNonSpaces(s, i) ==
    IF i <= Len(s) /\ ~IsSpace(s[i]) THEN SkipNonSpaces(s, i + 1) ELSE i

\* str.split() from position i on: the runs of non-whitespace.
RECURSIVE SplitFrom(_, _)
SplitFrom(s, i) ==
    Bind(SkipSpaces(s, i), LAMBDA a :
        IF a > Len(s) THEN <<>>
        ELSE Bind(SkipNonSpaces(s, a), LAMBDA b :
                 <<SubSeq(s, a, b - 1)>> \o SplitFrom(s, b)))

\* _clean_text
clean_text(t) == IF t = <<>> THEN <<>> ELSE Strip(Join(SplitFrom(t, 1)))

\* tag.get_text(): the text nodes one behind the other.
RECURSIVE get_text(_)
get_text(element) ==
    IF element = <<>> THEN <<>> ELSE Head(element) \o get_text(Tail(element))

\* A text node is kept by get_text(" ", strip=True).
HasText(node) == Strip(node) # <<>>

\* node.strip() of every kept node.
StripAll(kept) == SubSeq([i \in 1..Len(kept) |-> Strip(kept[i])], 1, Len(kept))

\* tag.get_text(" ", strip=True): the stripped text nodes that are not
\* empty, joined by a blank.
get_text_stripped(element) == Join(StripAll(SelectSeq(element, HasText)))

\* TitleLoop without `if data["title"]: break`.
RECURSIVE TitleLoopNoBreak(_, _, _)
TitleLoopNoBreak(found, i, value) ==
    IF i > Len(found) THEN value
    ELSE IF found[i] = None THEN TitleLoopNoBreak(found, i + 1, value)
    ELSE TitleLoopNoBreak(found, i + 1, clean_text(get_text_stripped(found[i][1])))

\* `for selector in title_selectors` from selector i on; found[i] is what
\* select_one gives for selector i, value is data["title"].
RECURSIVE TitleLoop(_, _, _)
TitleLoop(found, i, value) ==
    IF i > Len(found) THEN value
    ELSE IF found[i] = None THEN TitleLoop(found, i + 1, value)
    ELSE Bind(clean_text(get_text_stripped(found[i][1])), LAMBDA title :
             IF title # <<>> THEN title ELSE TitleLoop(found, i + 1, title))

\* `for selector in price_selectors` and `for selector in rating_selectors`
\* from selector i on; value is data["price"] or data["rating"].
RECURSIVE TextLoop(_, _, _)
TextLoop(found, i, value) ==
    IF i > Len(found) THEN value
    ELSE IF found[i] = None THEN TextLoop(found, i + 1, value)
    ELSE Bind(clean_text(get_text(found[i][1])), LAMBDA price_text :
             IF price_text # <<>> THEN price_text ELSE TextLoop(found, i + 1, value))

-----------------------------------------------------------------------------
(* Bounds *)

\* Rows per catalog table handed to search_products_enhanced.
MaxRows == 3

\* Price phrases per query text handed to extract_price_range.
MaxPhrases == 2

\* Listings one adapter collects.
MaxListings == 2

\* Rows of the raw table handed to clean_price_column.
MaxCells == 2

\* Words per text the user enters.
MaxWords == 2

\* The largest max_retries handed to fetch_with_retry (its default is 3).
MaxAttempts == 3

\* The largest page budget handed to an adapter, and the number of search
\* pages a source has.
MaxPages == 2

\* Selectors of one priority list that match an element of a result item.
MaxMatched == 2

(* Inputs *)

\* "samsung phone"
t_samsung_phone == <<"s","a","m","s","u","n","g"," ","p","h","o","n","e">>

\* "samsung phone case"
t_samsung_phone_case == <<"s","a","m","s","u","n","g"," ","p","h","o","n","e"," ","c","a","s","e">>

\* "Samsung Galaxy S21 128 black"
t_galaxy == <<"S","a","m","s","u","n","g"," ","G","a","l","a","x","y"," ","S","2","1"," ","1","2","8"," ","b","l","a","c","k">>

\* "nokia phone"
t_nokia == <<"n","o","k","i","a"," ","p","h","o","n","e">>

\* "samsung phone"
q_plain == <<"s","a","m","s","u","n","g"," ","p","h","o","n","e">>

\* "under 5000"
q_under == <<"u","n","d","e","r"," ","5","0","0","0">>

\* "above 4000"
q_above == <<"a","b","o","v","e"," ","4","0","0","0">>

\* "between 4000 and 5000"
q_between == <<"b","e","t","w","e","e","n"," ","4","0","0","0"," ","a","n","d"," ","5","0","0","0">>

\* "around 4500"
q_around == <<"a","r","o","u","n","d"," ","4","5","0","0">>

\* "Under 0"
q_under0 == <<"U","n","d","e","r"," ","0">>

\* "less than3000"
q_less == <<"l","e","s","s"," ","t","h","a","n","3","0","0","0">>

\* "cover 200"
q_cover == <<"c","o","v","e","r"," ","2","0","0">>

Catalog ==
    { Row(t_samsung_phone, 3000, 0),
      Row(t_samsung_phone, 6000, 0),
      Row(t_samsung_phone_case, 200, 0),
      Row(t_galaxy, 4500, 50),
      Row(t_nokia, 3000, 45) }

\* The catalog of the "samsung phone under 5000" scenario, in its listed order.
ScenarioCatalog ==
    << Row(t_samsung_phone, 3000, 0),
       Row(t_samsung_phone, 4500, 0),
       Row(t_samsung_phone, 6000, 0),
       Row(t_samsung_phone_case, 200, 0) >>

\* Tables of up to MaxRows distinct catalog rows, in every order.
Tables ==
    { t \in UNION {[1..n -> Catalog] : n \in 0..MaxRows} :
        \A i, j \in DOMAIN t : i # j => t[i] # t[j] }
    \cup {ScenarioCatalog}

\* The price ranges extract_price_range yields for these query texts.
PriceRanges ==
    { extract_price_range(q) :
        q \in {q_plain, q_under, q_above, q_between, q_around, q_under0} }

\* color, features and quality_level of the attribute record.
Extras ==
    { [color |-> None, features |-> <<>>, quality_level |-> None],
      [color |-> s_black, features |-> <<<<"storage_gb", s_128>>>>,
       quality_level |-> s_cheap] }

AttrsSet ==
    { [product |-> p, brand |-> b, color |-> e.color, price_range |-> pr,
       features |-> e.features, quality_level |-> e.quality_level] :
        p \in {None, s_phone}, b \in {None, s_samsung},
        pr \in PriceRanges, e \in Extras }

\* The attribute record of "samsung phone under 5000".
ScenarioAttrs ==
    [product |-> s_phone, brand |-> s_samsung, color |-> None,
     price_range |-> extract_price_range(q_plain \o <<" ">> \o q_under),
     features |-> <<>>, quality_level |-> None]

\* top_n: small values, and the default of the signature.
TopNs == {0, 2, 20}

Phrases == {q_plain, q_under, q_above, q_between, q_around, q_under0, q_less, q_cover}

\* Query texts: up to n phrases joined by single spaces.
RECURSIVE TextsOf(_)
TextsOf(n) ==
    IF n = 0 THEN {<<>>}
    ELSE TextsOf(n - 1)
         \cup Phrases
         \cup {t \o <<" ">> \o p : t \in TextsOf(n - 1) \ {<<>>}, p \in Phrases}

Texts == TextsOf(MaxPhrases)

\* The rows an adapter can collect: its first k listings, k <= MaxListings.
Collected(p) ==
    { [i \in 1..k |-> Listing(p, i)] : k \in 1..MaxListings }

AdapterOutcomes(p) ==
    {Raised, Nothing} \cup {Wrote(rows) : rows \in Collected(p)}

\* Raw price cells.
\* "29,900 EGP"
p_29900_egp == Str(<<"2","9",",","9","0","0"," ","E","G","P">>)

\* "65,500.00 EGP"
p_65500_egp == Str(<<"6","5",",","5","0","0",".","0","0"," ","E","G","P">>)

\* "65.500 EGP"
p_european == Str(<<"6","5",".","5","0","0"," ","E","G","P">>)

\* "invalid"
p_invalid == Str(<<"i","n","v","a","l","i","d">>)

\* "2,000,000 EGP"
p_two_million == Str(<<"2",",","0","0","0",",","0","0","0"," ","E","G","P">>)

\* "0.001"
p_tenth_of_cent == Str(<<"0",".","0","0","1">>)

\* "1.2.5"
p_two_points == Str(<<"1",".","2",".","5">>)

\* " 1 500 le "
p_spaced == Str(<<" ","1"," ","5","0","0"," ","l","e"," ">>)

\* "(pound sign)20"
p_sterling == Str(<<"u00a3","2","0">>)

\* "1,000,000"
p_million == Str(<<"1",",","0","0","0",",","0","0","0">>)

\* "0.01"
p_cent == Str(<<"0",".","0","1">>)

\* "-5"
p_negative == Str(<<"-","5">>)

\* "SALE 500"
p_sale == Str(<<"S","A","L","E"," ","5","0","0">>)

\* Raw rating cells.
\* "4.5 out of 5 stars"
r_stars == Str(<<"4",".","5"," ","o","u","t"," ","o","f"," ","5"," ","s","t","a","r","s">>)

\* "10"
r_ten == Str(<<"1","0">>)

\* "No rating"
r_none == Str(<<"N","o"," ","r","a","t","i","n","g">>)

\* "Rated 3.75"
r_rated == Str(<<"R","a","t","e","d"," ","3",".","7","5">>)

\* "-3 stars"
r_minus == Str(<<"-","3"," ","s","t","a","r","s">>)

\* "4."
r_point == Str(<<"4",".">>)

\* "12.5/5"
r_of == Str(<<"1","2",".","5","/","5">>)

\* The rows of the crawled table: a raw price cell and a raw rating cell, as
\* pd.read_csv hands them over (str, number or missing).
RawRows ==
    {[price |-> p_29900_egp, rating |-> r_stars],
     [price |-> p_65500_egp, rating |-> r_ten],
     [price |-> p_european, rating |-> r_none],
     [price |-> Num(29900000), rating |-> Num(7500)],
     [price |-> Num(2000000000), rating |-> r_minus],
     [price |-> Num(1), rating |-> r_point],
     [price |-> p_two_points, rating |-> Str(<<>>)],
     [price |-> p_spaced, rating |-> NaN],
     [price |-> p_sterling, rating |-> r_rated],
     [price |-> p_million, rating |-> Num(4200)],
     [price |-> p_cent, rating |-> Num(0 - 1000)],
     [price |-> p_29900_egp, rating |-> Num(5000)],
     [price |-> p_65500_egp, rating |-> r_of],
     [price |-> p_invalid, rating |-> r_stars],
     [price |-> Str(<<>>), rating |-> NaN],
     [price |-> NaN, rating |-> r_rated],
     [price |-> Num(0), rating |-> Num(4200)],
     [price |-> Num(0 - 5000), rating |-> r_ten],
     [price |-> p_two_million, rating |-> Num(5000)],
     [price |-> p_tenth_of_cent, rating |-> r_of],
     [price |-> p_negative, rating |-> r_stars],
     [price |-> p_sale, rating |-> r_none]}

RawTables == UNION {[1..n -> RawRows] : n \in 0..MaxCells}

\* Words of the text the user enters.
\* "Samsung"
w_samsung == <<"S","a","m","s","u","n","g">>

\* "the"
w_the == <<"t","h","e">>

\* "!!!"
w_marks == <<"!","!","!">>

\* "5000"
w_5000 == <<"5","0","0","0">>

\* U+0639 U+0627 U+064A U+0632, an Arabic stopword
w_ayez == <<"u0639","u0627","u064a","u0632">>

\* an Arabic word for mobile
w_mobile == <<"u0645","u0648","u0628","u0627","u064a","u0644">>

\* Arabic 'under'
w_taht == <<"u062a","u062d","u062a">>

\* Arabic 'limit'
w_hadd == <<"u062d","u062f">>

Words == {w_samsung, w_the, w_marks, w_5000, w_ayez, w_mobile, w_taht, w_hadd}

\* Up to n words joined by single blanks.
RECURSIVE WordsJoined(_)
WordsJoined(n) ==
    IF n = 0 THEN {<<>>}
    ELSE WordsJoined(n - 1)
         \cup Words
         \cup {t \o <<" ">> \o w : t \in WordsJoined(n - 1) \ {<<>>}, w \in Words}

\* The text with the word pair of phrase-table entry ph in it: the pair,
\* then "5000".
PhraseText(ph) == ph[1] \o <<" ">> \o ph[2] \o <<" ">> \o w_5000

PhraseTexts == {PhraseText(ph) : ph \in AR_PHRASE_MAP \cup EN_PHRASE_MAP}

\* What the user can have typed when the search button is clicked.
UserInputs == WordsJoined(MaxWords) \cup {<<" ", " ">>} \cup PhraseTexts

\* The items parse_search_results can find on one search page.
PageContents ==
    {<<>>, <<full_item>>, <<full_item, partial_item>>, <<unlinked_item, full_item>>}

\* What fetch_with_retry and parse_search_results give for search page n:
\* None after the retries, or the items of the page.  The source has
\* MaxPages pages; behind them a page has no items.
PageOutcomes(n) ==
    IF n > MaxPages THEN {None, Some(<<>>)}
    ELSE {None} \cup {Some(items) : items \in PageContents}

\* max_products: 0 is "no limit".
ProductLimits == {0, 1, 3}

\* Elements of a Noon result item: one whose only text is a blank, ...
e_blank == << <<" ">> >>

\* ... one with the text "A", ...
e_plain == << <<"A">> >>

\* ... and one with the text nodes " A" and "B \n C ".
e_nodes == << <<" ", "A">>, <<"B", " ", "\n", " ", "C", " ">> >>

\* What item.select_one(selector) can give.
Found == {None, Some(e_blank), Some(e_plain), Some(e_nodes)}

\* What select_one gives for each selector of a priority list, for an item
\* on which at most MaxMatched of them match.
FoundFor(selectors) ==
    {found \in [1..Len(selectors) -> Found] :
        Cardinality({i \in 1..Len(selectors) : found[i] # None}) <= MaxMatched}

\* A listing, marked with the search whose crawl produced it.
this_listing == [search |-> "this"]

earlier_listing == [search |-> "earlier"]

\* data/multi_platform_results.csv when the search button is clicked: not
\* there, or as crawl_all_platforms wrote it in an earlier search.
ResultFiles == {None, Some(<<earlier_listing>>)}

\* What the call of crawl_all_platforms does: it raises, the adapters
\* collect nothing, or they collect listings.
CrawlCalls ==
    {[raised |-> TRUE, df |-> <<>>],
     [raised |-> FALSE, df |-> <<>>],
     [raised |-> FALSE, df |-> <<this_listing>>]}

\* The cleaned listings an adapter can have collected for one query.  With
\* no brand asked for, "samsung phone" at 3000 on Amazon and "nokia phone"
\* at 3000 on Noon tie on relevance_score and price.
PlatformLists(p) ==
    IF p = "Amazon"
    THEN {<<>>, <<Row(t_samsung_phone, 3000, 0)>>,
          <<Row(t_samsung_phone, 3000, 0), Row(t_samsung_phone_case, 200, 0)>>}
    ELSE IF p = "Noon"
    THEN {<<>>, <<Row(t_nokia, 3000, 0)>>, <<Row(t_galaxy, 4500, 50)>>}
    ELSE {<<>>, <<Row(t_samsung_phone, 6000, 0)>>}

\* The attribute records of the queries that are crawled and ranked here.
RankAttrs ==
    {a \in AttrsSet :
        /\ a.color = None
        /\ a.price_range \in {extract_price_range(q_plain), extract_price_range(q_under)}}

RankTopNs == {1, 20}

-----------------------------------------------------------------------------
(* search_products_enhanced as a call *)

NoTrace == EarlyReturn(<<>>)

NoAttrs ==
    [product |-> None, brand |-> None, color |-> None, price_range |-> EmptyRange,
     features |-> <<>>, quality_level |-> None]

NoFuture == [kind |-> "pending", rows |-> <<>>]

NotRun == [kind |-> "pending", rows |-> <<>>]

\* One call of search_products_enhanced; the other components stay idle.
SearchInit ==
    /\ df \in Tables
    /\ attrs \in AttrsSet \cup {ScenarioAttrs}
    /\ top_n \in TopNs
    /\ search_pc = "call"
    /\ result = <<>>
    /\ trace = NoTrace
    /\ text = <<>>
    /\ price_pc = "idle"
    /\ price_range = EmptyRange
    /\ platforms = {}
    /\ task = [p \in Platforms |-> "idle"]
    /\ adapter = [p \in Platforms |-> NotRun]
    /\ future = [p \in Platforms |-> NoFuture]
    /\ order = <<>>
    /\ all_results = <<>>
    /\ crawl_pc = "idle"
    /\ returned = <<>>
    /\ surfaced = FALSE
    /\ raw_results = <<>>
    /\ clean_pc = "idle"
    /\ results = <<>>
    /\ live_pc = "idle"
    /\ live_results = <<>>
    /\ user_input = <<>>
    /\ app_pc = "idle"
    /\ tokens = <<>>
    /\ lang = "en"
    /\ query = <<>>
    /\ crawl_calls = 0
    /\ notice = "none"
    /\ max_retries = 0
    /\ attempt = 0
    /\ responses = <<>>
    /\ sleeps = <<>>
    /\ fetch_pc = "idle"
    /\ fetched = <<>>
    /\ site = "Amazon"
    /\ pages = 0
    /\ detailed = FALSE
    /\ max_products = 0
    /\ page_number = 0
    /\ fetched_products = 0
    /\ collected = <<>>
    /\ page_log = <<>>
    /\ page_bases = <<>>
    /\ pending = {}
    /\ loop_pc = "idle"
    /\ written = <<>>
    /\ tags = <<>>
    /\ data = [title |-> <<>>, price |-> <<>>, rating |-> <<>>]
    /\ noon_pc = "idle"
    /\ csv_file = None
    /\ crawl_df = <<>>
    /\ ranked_from = <<>>

SearchProductsEnhanced ==
    /\ search_pc = "call"
    /\ LET run == search_products_enhanced(df, attrs, top_n)
       IN  /\ result' = run.out
           /\ trace' = run
    /\ search_pc' = "return"
    /\ UNCHANGED <<df, attrs, top_n, priceVars, crawlVars, cleanVars, appVars, fetchVars, adapterVars, noonVars, resultVars>>

(* crawl_all_platforms followed by search_products_enhanced *)

\* The three adapter tasks have finished with their lists, the as_completed
\* loop is about to take them in some order, and the merged table will be
\* ranked for attrs.  The other components stay idle.
RankInit ==
    /\ platforms = Platforms
    /\ task = [p \in Platforms |-> "done"]
    /\ future \in {[p \in Platforms |-> [kind |-> "result", rows |-> lists[p]]] :
                      lists \in [Platforms -> UNION {PlatformLists(p) : p \in Platforms}]}
    /\ \A p \in Platforms : future[p].rows \in PlatformLists(p)
    /\ adapter = [p \in Platforms |->
                     IF future[p].rows = <<>> THEN Nothing ELSE Wrote(future[p].rows)]
    /\ order = <<>>
    /\ all_results = <<>>
    /\ crawl_pc = "loop"
    /\ returned = <<>>
    /\ surfaced = FALSE
    /\ df = <<>>
    /\ attrs \in RankAttrs
    /\ top_n \in RankTopNs
    /\ search_pc = "idle"
    /\ result = <<>>
    /\ trace = NoTrace
    /\ text = <<>>
    /\ price_pc = "idle"
    /\ price_range = EmptyRange
    /\ raw_results = <<>>
    /\ clean_pc = "idle"
    /\ results = <<>>
    /\ live_pc = "idle"
    /\ live_results = <<>>
    /\ user_input = <<>>
    /\ app_pc = "idle"
    /\ tokens = <<>>
    /\ lang = "en"
    /\ query = <<>>
    /\ crawl_calls = 0
    /\ notice = "none"
    /\ max_retries = 0
    /\ attempt = 0
    /\ responses = <<>>
    /\ sleeps = <<>>
    /\ fetch_pc = "idle"
    /\ fetched = <<>>
    /\ site = "Amazon"
    /\ pages = 0
    /\ detailed = FALSE
    /\ max_products = 0
    /\ page_number = 0
    /\ fetched_products = 0
    /\ collected = <<>>
    /\ page_log = <<>>
    /\ page_bases = <<>>
    /\ pending = {}
    /\ loop_pc = "idle"
    /\ written = <<>>
    /\ tags = <<>>
    /\ data = [title |-> <<>>, price |-> <<>>, rating |-> <<>>]
    /\ noon_pc = "idle"
    /\ csv_file = None
    /\ crawl_df = <<>>
    /\ ranked_from = <<>>

\* app.py hands the merged table, cleaned and renamed, to
\* search_products_enhanced.
HandOver ==
    /\ crawl_pc = "returned"
    /\ search_pc = "idle"
    /\ returned # <<>>
    /\ df' = returned
    /\ search_pc' = "call"
    /\ UNCHANGED <<attrs, top_n, result, trace, priceVars, crawlVars, cleanVars, appVars,
                   fetchVars, adapterVars, noonVars, resultVars>>

(* extract_price_range as a call *)

\* One call of extract_price_range; the other components stay idle.
PriceInit ==
    /\ text \in Texts
    /\ price_pc = "call"
    /\ price_range = EmptyRange
    /\ df = <<>>
    /\ attrs = NoAttrs
    /\ top_n = 0
    /\ search_pc = "idle"
    /\ result = <<>>
    /\ trace = NoTrace
    /\ platforms = {}
    /\ task = [p \in Platforms |-> "idle"]
    /\ adapter = [p \in Platforms |-> NotRun]
    /\ future = [p \in Platforms |-> NoFuture]
    /\ order = <<>>
    /\ all_results = <<>>
    /\ crawl_pc = "idle"
    /\ returned = <<>>
    /\ surfaced = FALSE
    /\ raw_results = <<>>
    /\ clean_pc = "idle"
    /\ results = <<>>
    /\ live_pc = "idle"
    /\ live_results = <<>>
    /\ user_input = <<>>
    /\ app_pc = "idle"
    /\ tokens = <<>>
    /\ lang = "en"
    /\ query = <<>>
    /\ crawl_calls = 0
    /\ notice = "none"
    /\ max_retries = 0
    /\ attempt = 0
    /\ responses = <<>>
    /\ sleeps = <<>>
    /\ fetch_pc = "idle"
    /\ fetched = <<>>
    /\ site = "Amazon"
    /\ pages = 0
    /\ detailed = FALSE
    /\ max_products = 0
    /\ page_number = 0
    /\ fetched_products = 0
    /\ collected = <<>>
    /\ page_log = <<>>
    /\ page_bases = <<>>
    /\ pending = {}
    /\ loop_pc = "idle"
    /\ written = <<>>
    /\ tags = <<>>
    /\ data = [title |-> <<>>, price |-> <<>>, rating |-> <<>>]
    /\ noon_pc = "idle"
    /\ csv_file = None
    /\ crawl_df = <<>>
    /\ ranked_from = <<>>

ExtractPriceRange ==
    /\ price_pc = "call"
    /\ price_range' = extract_price_range(text)
    /\ price_pc' = "return"
    /\ UNCHANGED <<text, searchVars, crawlVars, cleanVars, appVars, fetchVars, adapterVars, noonVars, resultVars>>

(* crawl_all_platforms: three futures and the as_completed loop *)

\* The state inside `with ThreadPoolExecutor(max_workers=3)`, all three
\* tasks submitted; the other components stay idle.
CrawlInit ==
    /\ platforms \in {Platforms, Platforms \ {"Jumia"}}
    /\ task = [p \in Platforms |-> "running"]
    /\ adapter = [p \in Platforms |-> NotRun]
    /\ future = [p \in Platforms |-> NoFuture]
    /\ order = <<>>
    /\ all_results = <<>>
    /\ crawl_pc = "loop"
    /\ returned = <<>>
    /\ surfaced = FALSE
    /\ df = <<>>
    /\ attrs = NoAttrs
    /\ top_n = 0
    /\ search_pc = "idle"
    /\ result = <<>>
    /\ trace = NoTrace
    /\ text = <<>>
    /\ price_pc = "idle"
    /\ price_range = EmptyRange
    /\ raw_results = <<>>
    /\ clean_pc = "idle"
    /\ results = <<>>
    /\ live_pc = "idle"
    /\ live_results = <<>>
    /\ user_input = <<>>
    /\ app_pc = "idle"
    /\ tokens = <<>>
    /\ lang = "en"
    /\ query = <<>>
    /\ crawl_calls = 0
    /\ notice = "none"
    /\ max_retries = 0
    /\ attempt = 0
    /\ responses = <<>>
    /\ sleeps = <<>>
    /\ fetch_pc = "idle"
    /\ fetched = <<>>
    /\ site = "Amazon"
    /\ pages = 0
    /\ detailed = FALSE
    /\ max_products = 0
    /\ page_number = 0
    /\ fetched_products = 0
    /\ collected = <<>>
    /\ page_log = <<>>
    /\ page_bases = <<>>
    /\ pending = {}
    /\ loop_pc = "idle"
    /\ written = <<>>
    /\ tags = <<>>
    /\ data = [title |-> <<>>, price |-> <<>>, rating |-> <<>>]
    /\ noon_pc = "idle"
    /\ csv_file = None
    /\ crawl_df = <<>>
    /\ ranked_from = <<>>

\* A worker runs crawl_<platform> to its end: the adapter raises, collects
\* nothing or writes its rows, and the future gets the wrapper's return value.
TaskFinishes(p) ==
    /\ task[p] = "running"
    /\ \E did \in AdapterOutcomes(p) :
          /\ adapter' = [adapter EXCEPT ![p] = IF p \in platforms THEN did ELSE NotRun]
          /\ future' = [future EXCEPT ![p] = crawl_platform(p, platforms, did)]
    /\ task' = [task EXCEPT ![p] = "done"]
    /\ UNCHANGED <<platforms, order, all_results, crawl_pc, returned, surfaced,
                   searchVars, priceVars, cleanVars, appVars, fetchVars, adapterVars, noonVars, resultVars>>

\* as_completed yields a finished future the loop has not seen yet.
Collect(p) ==
    /\ crawl_pc = "loop"
    /\ task[p] = "done"
    /\ LET h == HandleFuture(all_results, future[p])
       IN  /\ all_results' = h.all
           /\ surfaced' = h.escaped
           /\ crawl_pc' = IF h.escaped THEN "raised" ELSE "loop"
    /\ task' = [task EXCEPT ![p] = "collected"]
    /\ order' = Append(order, p)
    /\ UNCHANGED <<platforms, adapter, future, returned, searchVars, priceVars, cleanVars, appVars, fetchVars, adapterVars, noonVars, resultVars>>

\* Behind the loop: the merged table is built from all_results and returned.
Return ==
    /\ crawl_pc = "loop"
    /\ \A p \in Platforms : task[p] = "collected"
    /\ returned' = all_results
    /\ crawl_pc' = "returned"
    /\ UNCHANGED <<platforms, task, adapter, future, order, all_results, surfaced,
                   searchVars, priceVars, cleanVars, appVars, fetchVars, adapterVars, noonVars, resultVars>>

(* app.py "Clean and prepare data" and live_search.py "Clean price" *)

\* The crawled table is loaded; both pipelines are about to clean it.  The
\* other components stay idle.
CleanInit ==
    /\ raw_results \in RawTables
    /\ clean_pc = "raw"
    /\ results = <<>>
    /\ live_pc = "raw"
    /\ live_results = <<>>
    /\ df = <<>>
    /\ attrs = NoAttrs
    /\ top_n = 0
    /\ search_pc = "idle"
    /\ result = <<>>
    /\ trace = NoTrace
    /\ text = <<>>
    /\ price_pc = "idle"
    /\ price_range = EmptyRange
    /\ platforms = {}
    /\ task = [p \in Platforms |-> "idle"]
    /\ adapter = [p \in Platforms |-> NotRun]
    /\ future = [p \in Platforms |-> NoFuture]
    /\ order = <<>>
    /\ all_results = <<>>
    /\ crawl_pc = "idle"
    /\ returned = <<>>
    /\ surfaced = FALSE
    /\ user_input = <<>>
    /\ app_pc = "idle"
    /\ tokens = <<>>
    /\ lang = "en"
    /\ query = <<>>
    /\ crawl_calls = 0
    /\ notice = "none"
    /\ max_retries = 0
    /\ attempt = 0
    /\ responses = <<>>
    /\ sleeps = <<>>
    /\ fetch_pc = "idle"
    /\ fetched = <<>>
    /\ site = "Amazon"
    /\ pages = 0
    /\ detailed = FALSE
    /\ max_products = 0
    /\ page_number = 0
    /\ fetched_products = 0
    /\ collected = <<>>
    /\ page_log = <<>>
    /\ page_bases = <<>>
    /\ pending = {}
    /\ loop_pc = "idle"
    /\ written = <<>>
    /\ tags = <<>>
    /\ data = [title |-> <<>>, price |-> <<>>, rating |-> <<>>]
    /\ noon_pc = "idle"
    /\ csv_file = None
    /\ crawl_df = <<>>
    /\ ranked_from = <<>>

\* app.py: raw_results = clean_price_column(raw_results)
CleanPriceColumn ==
    /\ clean_pc = "raw"
    /\ results' = clean_price_column(raw_results)
    /\ clean_pc' = "cleaned"
    /\ UNCHANGED <<raw_results, live_pc, live_results, searchVars, priceVars, crawlVars, appVars, fetchVars, adapterVars, noonVars, resultVars>>

\* app.py: results["rating_numeric"] = results["rating"].apply(extract_rating_numeric)
RatingNumericColumn ==
    /\ clean_pc = "cleaned"
    /\ results' = rating_numeric_column(results)
    /\ clean_pc' = "prepared"
    /\ UNCHANGED <<raw_results, live_pc, live_results, searchVars, priceVars, crawlVars, appVars, fetchVars, adapterVars, noonVars, resultVars>>

\* live_search.py: df["price"].apply(clean_price_amazon) and dropna
LiveSearchClean ==
    /\ live_pc = "raw"
    /\ live_results' = live_search_clean(raw_results)
    /\ live_pc' = "cleaned"
    /\ UNCHANGED <<raw_results, clean_pc, results, searchVars, priceVars, crawlVars, appVars, fetchVars, adapterVars, noonVars, resultVars>>

(* app.py: search processing *)

\* The search button has been clicked; the other components stay idle.
AppInit ==
    /\ user_input \in UserInputs
    /\ app_pc = "clicked"
    /\ tokens = <<>>
    /\ lang = "en"
    /\ query = <<>>
    /\ crawl_calls = 0
    /\ notice = "none"
    /\ df = <<>>
    /\ attrs = NoAttrs
    /\ top_n = 0
    /\ search_pc = "idle"
    /\ result = <<>>
    /\ trace = NoTrace
    /\ text = <<>>
    /\ price_pc = "idle"
    /\ price_range = EmptyRange
    /\ platforms = {}
    /\ task = [p \in Platforms |-> "idle"]
    /\ adapter = [p \in Platforms |-> NotRun]
    /\ future = [p \in Platforms |-> NoFuture]
    /\ order = <<>>
    /\ all_results = <<>>
    /\ crawl_pc = "idle"
    /\ returned = <<>>
    /\ surfaced = FALSE
    /\ raw_results = <<>>
    /\ clean_pc = "idle"
    /\ results = <<>>
    /\ live_pc = "idle"
    /\ live_results = <<>>
    /\ max_retries = 0
    /\ attempt = 0
    /\ responses = <<>>
    /\ sleeps = <<>>
    /\ fetch_pc = "idle"
    /\ fetched = <<>>
    /\ site = "Amazon"
    /\ pages = 0
    /\ detailed = FALSE
    /\ max_products = 0
    /\ page_number = 0
    /\ fetched_products = 0
    /\ collected = <<>>
    /\ page_log = <<>>
    /\ page_bases = <<>>
    /\ pending = {}
    /\ loop_pc = "idle"
    /\ written = <<>>
    /\ tags = <<>>
    /\ data = [title |-> <<>>, price |-> <<>>, rating |-> <<>>]
    /\ noon_pc = "idle"
    /\ csv_file \in ResultFiles
    /\ crawl_df = <<>>
    /\ ranked_from = <<>>

\* `if not user_input.strip()`: st.warning, nothing else runs.
WarnBlankInput ==
    /\ app_pc = "clicked"
    /\ Strip(user_input) = <<>>
    /\ notice' = "warning"
    /\ app_pc' = "done"
    /\ UNCHANGED <<user_input, tokens, lang, query, crawl_calls,
                   searchVars, priceVars, crawlVars, cleanVars, fetchVars, adapterVars, noonVars, resultVars>>

\* Step 1: tokens, lang = preprocess_text(user_input)
Preprocess ==
    /\ app_pc = "clicked"
    /\ Strip(user_input) # <<>>
    /\ tokens' = preprocess_text(user_input).tokens
    /\ lang' = preprocess_text(user_input).lang
    /\ app_pc' = "preprocessed"
    /\ UNCHANGED <<user_input, query, crawl_calls, notice,
                   searchVars, priceVars, crawlVars, cleanVars, fetchVars, adapterVars, noonVars, resultVars>>

\* Steps 2 and 3: the attributes are extracted (no effect on the control
\* flow) and query = " ".join(tokens).strip()
BuildQuery ==
    /\ app_pc = "preprocessed"
    /\ query' = Strip(Join(tokens))
    /\ app_pc' = "query"
    /\ UNCHANGED <<user_input, tokens, lang, crawl_calls, notice,
                   searchVars, priceVars, crawlVars, cleanVars, fetchVars, adapterVars, noonVars, resultVars>>

\* `if not query`: st.error and st.stop()
StopWithoutQuery ==
    /\ app_pc = "query"
    /\ QueryMissing(query)
    /\ notice' = "error"
    /\ app_pc' = "stopped"
    /\ UNCHANGED <<user_input, tokens, lang, query, crawl_calls,
                   searchVars, priceVars, crawlVars, cleanVars, fetchVars, adapterVars, noonVars, resultVars>>

\* Step 4: crawl_all_platforms(query=query, output_path=csv_path, ...) is
\* called; it returns a table, which it has written to csv_path if it has
\* rows, or raises and the handler reports the error and stops.
CallCrawlAllPlatforms ==
    /\ app_pc = "query"
    /\ ~QueryMissing(query)
    /\ crawl_calls' = crawl_calls + 1
    /\ \E call \in CrawlCalls :
          /\ notice' = IF call.raised THEN "error" ELSE notice
          /\ app_pc' = IF call.raised THEN "stopped" ELSE "crawled"
          /\ crawl_df' = call.df
          /\ csv_file' = IF call.df # <<>> THEN Some(call.df) ELSE csv_file
    /\ UNCHANGED <<user_input, tokens, lang, query, ranked_from,
                   searchVars, priceVars, crawlVars, cleanVars, fetchVars, adapterVars, noonVars>>

\* Step 5: the crawled table, or the rows of csv_path if it is empty, go
\* on to cleaning and ranking; without rows the no_products warning is
\* shown and the script stops.
ProcessResults ==
    /\ app_pc = "crawled"
    /\ IF LoadResults(crawl_df, csv_file) = None
       THEN /\ notice' = "no_products"
            /\ app_pc' = "stopped"
            /\ UNCHANGED ranked_from
       ELSE /\ ranked_from' = LoadResults(crawl_df, csv_file)[1]
            /\ app_pc' = "ranking"
            /\ UNCHANGED notice
    /\ UNCHANGED <<user_input, tokens, lang, query, crawl_calls, csv_file, crawl_df,
                   searchVars, priceVars, crawlVars, cleanVars, fetchVars, adapterVars, noonVars>>

(* fetch_with_retry as a call *)

\* fetch_with_retry is entered with some max_retries; the other components
\* stay idle.
FetchInit ==
    /\ max_retries \in 0..MaxAttempts
    /\ attempt = 0
    /\ responses = <<>>
    /\ sleeps = <<>>
    /\ fetch_pc = "loop"
    /\ fetched = None
    /\ df = <<>>
    /\ attrs = NoAttrs
    /\ top_n = 0
    /\ search_pc = "idle"
    /\ result = <<>>
    /\ trace = NoTrace
    /\ text = <<>>
    /\ price_pc = "idle"
    /\ price_range = EmptyRange
    /\ platforms = {}
    /\ task = [p \in Platforms |-> "idle"]
    /\ adapter = [p \in Platforms |-> NotRun]
    /\ future = [p \in Platforms |-> NoFuture]
    /\ order = <<>>
    /\ all_results = <<>>
    /\ crawl_pc = "idle"
    /\ returned = <<>>
    /\ surfaced = FALSE
    /\ raw_results = <<>>
    /\ clean_pc = "idle"
    /\ results = <<>>
    /\ live_pc = "idle"
    /\ live_results = <<>>
    /\ user_input = <<>>
    /\ app_pc = "idle"
    /\ tokens = <<>>
    /\ lang = "en"
    /\ query = <<>>
    /\ crawl_calls = 0
    /\ notice = "none"
    /\ site = "Amazon"
    /\ pages = 0
    /\ detailed = FALSE
    /\ max_products = 0
    /\ page_number = 0
    /\ fetched_products = 0
    /\ collected = <<>>
    /\ page_log = <<>>
    /\ page_bases = <<>>
    /\ pending = {}
    /\ loop_pc = "idle"
    /\ written = <<>>
    /\ tags = <<>>
    /\ data = [title |-> <<>>, price |-> <<>>, rating |-> <<>>]
    /\ noon_pc = "idle"
    /\ csv_file = None
    /\ crawl_df = <<>>
    /\ ranked_from = <<>>

\* One iteration of the loop: session.get answers or raises, and the
\* function returns or sleeps and goes on to the next attempt.
Attempt ==
    /\ fetch_pc = "loop"
    /\ attempt < max_retries
    /\ \E outcome \in GetOutcomes :
          /\ responses' = Append(responses, outcome)
          /\ fetched' = HandleResponse(attempt, max_retries, outcome).value
          /\ fetch_pc' = IF HandleResponse(attempt, max_retries, outcome).returns
                         THEN "returned" ELSE "loop"
          /\ sleeps' = sleeps \o HandleResponse(attempt, max_retries, outcome).sleep
    /\ attempt' = attempt + 1
    /\ UNCHANGED <<max_retries, searchVars, priceVars, crawlVars, cleanVars, appVars, adapterVars, noonVars, resultVars>>

\* The loop has run out of attempts: `return None` behind it.
GiveUp ==
    /\ fetch_pc = "loop"
    /\ attempt >= max_retries
    /\ fetched' = None
    /\ fetch_pc' = "returned"
    /\ UNCHANGED <<max_retries, attempt, responses, sleeps,
                   searchVars, priceVars, crawlVars, cleanVars, appVars, adapterVars, noonVars, resultVars>>

(* crawl_<site>_to_csv: the pagination loop *)

\* An adapter is entered: the session is made and the loop is about to
\* start with page 1.  The other components stay idle.
AdapterInit ==
    /\ site \in Sites
    /\ pages \in 0..MaxPages
    /\ detailed \in BOOLEAN
    /\ max_products \in ProductLimits
    /\ page_number = 1
    /\ fetched_products = 0
    /\ collected = <<>>
    /\ page_log = <<>>
    /\ page_bases = <<>>
    /\ pending = {}
    /\ loop_pc = "loop"
    /\ written = <<>>
    /\ df = <<>>
    /\ attrs = NoAttrs
    /\ top_n = 0
    /\ search_pc = "idle"
    /\ result = <<>>
    /\ trace = NoTrace
    /\ text = <<>>
    /\ price_pc = "idle"
    /\ price_range = EmptyRange
    /\ platforms = {}
    /\ task = [p \in Platforms |-> "idle"]
    /\ adapter = [p \in Platforms |-> NotRun]
    /\ future = [p \in Platforms |-> NoFuture]
    /\ order = <<>>
    /\ all_results = <<>>
    /\ crawl_pc = "idle"
    /\ returned = <<>>
    /\ surfaced = FALSE
    /\ raw_results = <<>>
    /\ clean_pc = "idle"
    /\ results = <<>>
    /\ live_pc = "idle"
    /\ live_results = <<>>
    /\ user_input = <<>>
    /\ app_pc = "idle"
    /\ tokens = <<>>
    /\ lang = "en"
    /\ query = <<>>
    /\ crawl_calls = 0
    /\ notice = "none"
    /\ max_retries = 0
    /\ attempt = 0
    /\ responses = <<>>
    /\ sleeps = <<>>
    /\ fetch_pc = "idle"
    /\ fetched = <<>>
    /\ tags = <<>>
    /\ data = [title |-> <<>>, price |-> <<>>, rating |-> <<>>]
    /\ noon_pc = "idle"
    /\ csv_file = None
    /\ crawl_df = <<>>
    /\ ranked_from = <<>>

\* `if pages and page_number > pages: break`
LeaveLoop ==
    /\ loop_pc = "loop"
    /\ PastBudget(pages, page_number)
    /\ loop_pc' = "save"
    /\ UNCHANGED <<site, pages, detailed, max_products, page_number, fetched_products,
                   collected, page_log, page_bases, pending, written,
                   searchVars, priceVars, crawlVars, cleanVars, appVars, fetchVars, noonVars, resultVars>>

\* One iteration of `while True` up to the detail fetches: the search page
\* is fetched and parsed; a failed fetch or a page without items breaks;
\* without detailed fetching the items are appended, up to the limit.
FetchPage ==
    /\ loop_pc = "loop"
    /\ ~PastBudget(pages, page_number)
    /\ \E response \in PageOutcomes(page_number) :
          IF response = None
          THEN /\ page_log' = Append(page_log, [number |-> page_number, got |-> "failed"])
               /\ loop_pc' = FailedFetch(page_number).loop_pc
               /\ page_number' = FailedFetch(page_number).page_number
               /\ UNCHANGED <<fetched_products, collected, page_bases, pending>>
          ELSE IF response[1] = <<>>
          THEN /\ page_log' = Append(page_log, [number |-> page_number, got |-> "empty"])
               /\ loop_pc' = "save"
               /\ UNCHANGED <<page_number, fetched_products, collected, page_bases, pending>>
          ELSE IF detailed
          THEN /\ page_log' = Append(page_log, [number |-> page_number, got |-> "items"])
               /\ page_bases' = response[1]
               /\ pending' = 1..Len(response[1])
               /\ loop_pc' = "details"
               /\ UNCHANGED <<page_number, fetched_products, collected>>
          ELSE /\ page_log' = Append(page_log, [number |-> page_number, got |-> "items"])
               /\ page_bases' = response[1]
               /\ collected' = AppendBasic(collected, response[1], 1, page_number, max_products)
               /\ fetched_products' = Len(collected')
               /\ loop_pc' = IF ReachedLimit(max_products, fetched_products')
                             THEN "save" ELSE "loop"
               /\ page_number' = IF ReachedLimit(max_products, fetched_products')
                                 THEN page_number ELSE page_number + 1
               /\ UNCHANGED pending
    /\ UNCHANGED <<site, pages, detailed, max_products, written,
                   searchVars, priceVars, crawlVars, cleanVars, appVars, fetchVars, noonVars, resultVars>>

\* One iteration of `for fut in as_completed(futures)`: the detail fetch of
\* item i is the next to finish; its row is appended; the loops break once
\* the limit is reached, and the next page follows the last future.
DetailCompletes(i) ==
    /\ loop_pc = "details"
    /\ i \in pending
    /\ \E html \in DetailOutcomes :
          collected' = Append(collected,
                              DetailedRow(site, page_number, i, page_bases[i], html))
    /\ fetched_products' = fetched_products + 1
    /\ IF ReachedLimit(max_products, fetched_products + 1)
       THEN /\ pending' = {}
            /\ loop_pc' = "save"
            /\ UNCHANGED page_number
       ELSE IF pending = {i}
       THEN /\ pending' = {}
            /\ loop_pc' = "loop"
            /\ page_number' = page_number + 1
       ELSE /\ pending' = pending \ {i}
            /\ UNCHANGED <<loop_pc, page_number>>
    /\ UNCHANGED <<site, pages, detailed, max_products, page_log, page_bases, written,
                   searchVars, priceVars, crawlVars, cleanVars, appVars, fetchVars, noonVars, resultVars>>

\* Behind the loop: the CSV is written if anything was collected, and
\* len(collected) is returned.
SaveCsv ==
    /\ loop_pc = "save"
    /\ written' = collected
    /\ loop_pc' = "returned"
    /\ UNCHANGED <<site, pages, detailed, max_products, page_number, fetched_products,
                   collected, page_log, page_bases, pending,
                   searchVars, priceVars, crawlVars, cleanVars, appVars, fetchVars, noonVars, resultVars>>

(* extract_from_result_item as a call *)

\* extract_from_result_item is entered with a result item: data holds "" in
\* every field.  The other components stay idle.
NoonInit ==
    /\ tags = <<>>
    /\ data = [title |-> <<>>, price |-> <<>>, rating |-> <<>>]
    /\ noon_pc = "start"
    /\ df = <<>>
    /\ attrs = NoAttrs
    /\ top_n = 0
    /\ search_pc = "idle"
    /\ result = <<>>
    /\ trace = NoTrace
    /\ text = <<>>
    /\ price_pc = "idle"
    /\ price_range = EmptyRange
    /\ platforms = {}
    /\ task = [p \in Platforms |-> "idle"]
    /\ adapter = [p \in Platforms |-> NotRun]
    /\ future = [p \in Platforms |-> NoFuture]
    /\ order = <<>>
    /\ all_results = <<>>
    /\ crawl_pc = "idle"
    /\ returned = <<>>
    /\ surfaced = FALSE
    /\ raw_results = <<>>
    /\ clean_pc = "idle"
    /\ results = <<>>
    /\ live_pc = "idle"
    /\ live_results = <<>>
    /\ user_input = <<>>
    /\ app_pc = "idle"
    /\ tokens = <<>>
    /\ lang = "en"
    /\ query = <<>>
    /\ crawl_calls = 0
    /\ notice = "none"
    /\ max_retries = 0
    /\ attempt = 0
    /\ responses = <<>>
    /\ sleeps = <<>>
    /\ fetch_pc = "idle"
    /\ fetched = <<>>
    /\ site = "Amazon"
    /\ pages = 0
    /\ detailed = FALSE
    /\ max_products = 0
    /\ page_number = 0
    /\ fetched_products = 0
    /\ collected = <<>>
    /\ page_log = <<>>
    /\ page_bases = <<>>
    /\ pending = {}
    /\ loop_pc = "idle"
    /\ written = <<>>
    /\ csv_file = None
    /\ crawl_df = <<>>
    /\ ranked_from = <<>>

\* "Title - try multiple selectors"; tags is what the item's markup gives
\* for the selectors.
ExtractTitle ==
    /\ noon_pc = "start"
    /\ \E found \in FoundFor(title_selectors) :
          /\ tags' = found
          /\ data' = [data EXCEPT !.title = TitleLoop(found, 1, data.title)]
    /\ noon_pc' = "title"
    /\ UNCHANGED <<searchVars, priceVars, crawlVars, cleanVars, appVars, fetchVars, adapterVars, resultVars>>

\* "Price - try multiple selectors"
ExtractPrice ==
    /\ noon_pc = "title"
    /\ \E found \in FoundFor(price_selectors) :
          /\ tags' = found
          /\ data' = [data EXCEPT !.price = TextLoop(found, 1, data.price)]
    /\ noon_pc' = "price"
    /\ UNCHANGED <<searchVars, priceVars, crawlVars, cleanVars, appVars, fetchVars, adapterVars, resultVars>>

\* "Rating - try multiple selectors"
ExtractRating ==
    /\ noon_pc = "price"
    /\ \E found \in FoundFor(rating_selectors) :
          /\ tags' = found
          /\ data' = [data EXCEPT !.rating = TextLoop(found, 1, data.rating)]
    /\ noon_pc' = "rating"
    /\ UNCHANGED <<searchVars, priceVars, crawlVars, cleanVars, appVars, fetchVars, adapterVars, resultVars>>

-----------------------------------------------------------------------------
(* Specifications *)

SearchNext == SearchProductsEnhanced

SpecSearch == SearchInit /\ [][SearchNext]_vars

PriceNext == ExtractPriceRange

SpecPrice == PriceInit /\ [][PriceNext]_vars

CrawlNext ==
    \/ \E p \in Platforms : TaskFinishes(p)
    \/ \E p \in Platforms : Collect(p)
    \/ Return

SpecCrawl == CrawlInit /\ [][CrawlNext]_vars

CleanNext ==
    \/ CleanPriceColumn
    \/ RatingNumericColumn
    \/ LiveSearchClean

SpecClean == CleanInit /\ [][CleanNext]_vars

AppNext ==
    \/ WarnBlankInput
    \/ Preprocess
    \/ BuildQuery
    \/ StopWithoutQuery
    \/ CallCrawlAllPlatforms
    \/ ProcessResults

SpecApp == AppInit /\ [][AppNext]_vars

FetchNext ==
    \/ Attempt
    \/ GiveUp

SpecFetch == FetchInit /\ [][FetchNext]_vars

AdapterNext ==
    \/ LeaveLoop
    \/ FetchPage
    \/ \E i \in 1..2 : DetailCompletes(i)
    \/ SaveCsv

SpecAdapter == AdapterInit /\ [][AdapterNext]_vars

\* The adapter is a sequential program that is never suspended for ever.
SpecAdapterFair == SpecAdapter /\ WF_vars(AdapterNext)

NoonNext ==
    \/ ExtractTitle
    \/ ExtractPrice
    \/ ExtractRating

SpecNoon == NoonInit /\ [][NoonNext]_vars

RankNext ==
    \/ \E p \in Platforms : Collect(p)
    \/ Return
    \/ HandOver
    \/ SearchProductsEnhanced

SpecRank == RankInit /\ [][RankNext]_vars

-----------------------------------------------------------------------------
(* Properties of crawl_all_platforms *)

\* The rows of the adapters that wrote a CSV, in the order the loop took them.
RECURSIVE MergeOf(_)
MergeOf(seen) ==
    IF seen = <<>> THEN <<>>
    ELSE MergeOf(SubSeq(seen, 1, Len(seen) - 1))
         \o (IF adapter[seen[Len(seen)]].kind = "wrote"
             THEN adapter[seen[Len(seen)]].rows ELSE <<>>)

\* C1: when adapters raise or collect nothing, crawl_all_platforms still returns
\* the concatenation of the listings of the other adapters, and no exception of
\* a failing adapter reaches the caller.
C1_FailureIsolated ==
    /\ crawl_pc # "raised"
    /\ ~surfaced
    /\ crawl_pc = "returned" => returned = MergeOf(order)

\* One adapter raised, the other two wrote rows, and the call has returned them.
C1_Witness ==
    /\ crawl_pc = "returned"
    /\ adapter["Noon"].kind = "raised"
    /\ adapter["Amazon"].kind = "wrote"
    /\ adapter["Jumia"].kind = "wrote"
    /\ Len(returned) = Len(adapter["Amazon"].rows) + Len(adapter["Jumia"].rows)

\* How often listing l is in the list s.
Occurrences(s, l) == Cardinality({i \in DOMAIN s : s[i] = l})

\* C20: whatever the order in which the three tasks complete, the table
\* crawl_all_platforms returns holds every listing as often as the three
\* adapters' result lists together do, and it is returned only once all
\* three tasks have finished and have been taken by the loop.
C20_SameMultisetAnyOrder ==
    crawl_pc = "returned" =>
        /\ \A p \in Platforms : task[p] = "collected"
        /\ Len(order) = 3
        /\ \A p \in Platforms : \A k \in 1..(MaxListings + 1) :
               Occurrences(returned, Listing(p, k))
                   = Occurrences(future["Amazon"].rows, Listing(p, k))
                     + Occurrences(future["Noon"].rows, Listing(p, k))
                     + Occurrences(future["Jumia"].rows, Listing(p, k))
        /\ Len(returned) = Len(future["Amazon"].rows) + Len(future["Noon"].rows)
                           + Len(future["Jumia"].rows)

\* The three tasks completed in the order Jumia, Amazon, Noon, each with
\* rows, and the call has returned.
C20_Witness ==
    /\ crawl_pc = "returned"
    /\ order = <<"Jumia", "Amazon", "Noon">>
    /\ \A p \in Platforms : Len(future[p].rows) = MaxListings
    /\ returned[1].website = "Jumia"

\* The tabular output schema.
OutputSchema ==
    <<"title", "price", "rating", "image", "product_link",
      "description", "search_query", "website">>

\* C21: the merged table crawl_all_platforms returns has exactly the columns
\* title, price, rating, image, product_link, description, search_query,
\* website, in this order, whichever adapters gave rows and in whichever
\* order they completed.
C21_ColumnsAsSchema ==
    (crawl_pc = "returned" /\ returned # <<>>) =>
        DataFrameColumns(returned) = OutputSchema

\* C21 for the calls in which Amazon gave no rows.
C21_SchemaWithoutAmazon ==
    (crawl_pc = "returned" /\ returned # <<>> /\ future["Amazon"].rows = <<>>) =>
        DataFrameColumns(returned) = OutputSchema

-----------------------------------------------------------------------------
(* Properties of search_products_enhanced *)

Returned == search_pc = "return"

MaxSet == attrs.price_range.max # None

\* A listing the accessory filter keeps for this query.
KeptByAccessoryFilter(row) ==
    attrs.product \in DeviceTypes => ~is_accessory(row.product_name)

\* C2 as stated: on the relaxed path the surviving set is non-empty whenever
\* some input listing has price <= price_range.max.
C2_RelaxedNonEmpty ==
    (Returned /\ trace.relaxed /\ MaxSet
        /\ \E i \in DOMAIN df : df[i].price <= attrs.price_range.max[1])
    => trace.ranked # <<>>

\* C2 amended: on the relaxed path the surviving set is non-empty whenever some
\* input listing that the accessory filter keeps has price <= price_range.max.
C2_RelaxedNonEmptyOfKept ==
    (Returned /\ trace.relaxed /\ MaxSet
        /\ \E i \in DOMAIN df :
              KeptByAccessoryFilter(df[i]) /\ df[i].price <= attrs.price_range.max[1])
    => trace.ranked # <<>>

\* The normal phase emptied the set and the relaxed pass brought listings back.
C2_Witness ==
    /\ Returned /\ trace.relaxed /\ MaxSet
    /\ trace.after_brand # <<>>
    /\ \E i \in DOMAIN df :
          KeptByAccessoryFilter(df[i]) /\ df[i].price <= attrs.price_range.max[1]
    /\ trace.ranked # <<>>

\* C3: neither the product-type filter nor the brand filter empties the
\* candidate set: non-empty before the filter implies non-empty after it.
C3_FiltersKeepNonEmpty ==
    Returned =>
        /\ trace.after_accessory # <<>> => trace.after_type # <<>>
        /\ trace.after_type # <<>> => trace.after_brand # <<>>

\* Both filters matched no candidate and both results were discarded.
C3_Witness ==
    /\ Returned
    /\ attrs.product = s_phone /\ attrs.brand = s_samsung
    /\ trace.after_accessory # <<>>
    /\ \A i \in DOMAIN trace.after_accessory :
          /\ ~ContainsAny(Lower(trace.after_accessory[i].product_name), pattern_phone)
          /\ ~Contains(Lower(trace.after_accessory[i].product_name), s_samsung)
    /\ trace.after_brand = trace.after_accessory

\* C4: for a device query (phone, laptop, tablet, watch) no listing whose title
\* contains an accessory keyword is returned, on either path.
C4_NoAccessoryReturned ==
    (Returned /\ attrs.product \in DeviceTypes)
    => \A i \in DOMAIN result : ~is_accessory(result[i].product_name)

\* A device query over a table with an accessory, answered by the relaxed pass.
C4_Witness ==
    /\ Returned /\ attrs.product \in DeviceTypes
    /\ trace.relaxed
    /\ \E i \in DOMAIN df : is_accessory(df[i].product_name)
    /\ result # <<>>

\* C5: whenever price_range.max is set, every returned listing has price <= max.
C5_MaxRespected ==
    (Returned /\ MaxSet)
    => \A i \in DOMAIN result : result[i].price <= attrs.price_range.max[1]

\* What holds instead: the bound is respected whenever max is set and not 0.
C5_NonZeroMaxRespected ==
    (Returned /\ TruthyInt(attrs.price_range.max))
    => \A i \in DOMAIN result : result[i].price <= attrs.price_range.max[1]

\* C6: the output is ordered by relevance_score descending and, among equal
\* scores, by price ascending.
C6_Ordered ==
    Returned =>
        \A i, j \in DOMAIN result :
            i < j =>
                \/ result[i].relevance_score > result[j].relevance_score
                \/ /\ result[i].relevance_score = result[j].relevance_score
                   /\ result[i].price <= result[j].price

\* Two listings with equal score and different prices were returned, and the
\* table had the dearer one first.
C6_Witness ==
    /\ Returned
    /\ Len(result) >= 2
    /\ result[1].relevance_score = result[2].relevance_score
    /\ result[1].price < result[2].price
    /\ df[1].price = result[2].price

\* C7: at most top_n listings are returned, and they are the first
\* min(top_n, number of survivors) entries of the full ranked order.
C7_Truncated ==
    Returned =>
        /\ Len(result) <= top_n
        /\ Len(result) = Min(top_n, Len(trace.ranked))
        /\ \A i \in DOMAIN result : result[i] = trace.ranked[i]

\* More listings survived than top_n allows, and top_n of them were returned.
C7_Witness ==
    /\ Returned
    /\ top_n > 0
    /\ Len(trace.ranked) > top_n
    /\ Len(result) = top_n

\* C8: calculate_relevance_score is between 0 and 100 (in tenths: 0..1000).
C8_ScoreWithin100 ==
    Returned =>
        \A i \in DOMAIN result :
            result[i].relevance_score >= 0 /\ result[i].relevance_score <= 1000

\* C9: "samsung phone under 5000" over the four-listing catalog returns exactly
\* the 3000 and the 4500 listing, without the case and the 6000 listing, ordered
\* by descending relevance_score and then ascending price.
C9_ScenarioA ==
    (Returned /\ df = ScenarioCatalog /\ attrs = ScenarioAttrs /\ top_n >= 2)
    => /\ Len(result) = 2
       /\ {result[i].price : i \in DOMAIN result} = {3000, 4500}
       /\ \A i \in DOMAIN result : result[i].product_name = t_samsung_phone
       /\ \/ result[1].relevance_score > result[2].relevance_score
          \/ /\ result[1].relevance_score = result[2].relevance_score
             /\ result[1].price <= result[2].price

\* The scenario has run: the 4500 listing (60 points) before the 3000 one (55).
C9_Witness ==
    /\ Returned /\ df = ScenarioCatalog /\ attrs = ScenarioAttrs /\ top_n = 20
    /\ ~trace.relaxed
    /\ Len(result) = 2
    /\ result[1].price = 4500 /\ result[1].relevance_score = 600
    /\ result[2].price = 3000 /\ result[2].relevance_score = 550

\* The three result lists merged in the order Amazon, Noon, Jumia.
MergedInSubmissionOrder ==
    future["Amazon"].rows \o future["Noon"].rows \o future["Jumia"].rows

Ranked == crawl_pc = "returned" /\ search_pc = "return"

\* C27: for fixed per-adapter results the ranked sequence is the same for
\* every completion order of the adapters (the one of the order Amazon,
\* Noon, Jumia), also when listings of different platforms tie on
\* relevance_score and price and when top_n truncates.
C27_RankingIgnoresCompletionOrder ==
    Ranked =>
        result = search_products_enhanced(MergedInSubmissionOrder, attrs, top_n).out

\* No two listings that are ranked tie on relevance_score and price.
NoTies ==
    \A i, j \in DOMAIN trace.ranked :
        i # j => \/ trace.ranked[i].relevance_score # trace.ranked[j].relevance_score
                 \/ trace.ranked[i].price # trace.ranked[j].price

\* C27 for the searches without such a tie.
C27_SameWithoutTies ==
    (Ranked /\ NoTies) =>
        result = search_products_enhanced(MergedInSubmissionOrder, attrs, top_n).out

MinSet == attrs.price_range.min # None

\* C29: whenever price_range.min is set, every returned listing has
\* price >= min, on the relaxed fallback path as well.
C29_MinRespected ==
    (Returned /\ MinSet)
    => \A i \in DOMAIN result : result[i].price >= attrs.price_range.min[1]

\* C29 amended: whenever price_range.min is set and the result does not come
\* from the relaxed fallback, every returned listing has price >= min.
C29_MinRespectedUnlessRelaxed ==
    (Returned /\ MinSet /\ ~trace.relaxed)
    => \A i \in DOMAIN result : result[i].price >= attrs.price_range.min[1]

\* A min price that removed a listing of the table and left others, which
\* are returned without the fallback.
C29_Witness ==
    /\ Returned /\ MinSet /\ ~trace.relaxed
    /\ result # <<>>
    /\ \E i \in DOMAIN df : df[i].price < attrs.price_range.min[1]

-----------------------------------------------------------------------------
(* Properties of extract_price_range *)

Extracted == price_pc = "return"

\* The match of one pattern type on the lowered text.
MatchOf(ptype) == PatternMatch(ptype, Lower(text))

\* C10 as stated: only the first matching pattern, in the order max, min, range,
\* target, populates the range; fields of later patterns stay None.
C10_FirstMatchOnly ==
    Extracted => price_range = extract_price_range_first_match(text)

\* C10 amended: every matching pattern is applied, in the order max, min, range,
\* target, so each field holds the value of the last matching pattern that sets it.
C10_EveryMatchApplied ==
    Extracted =>
        /\ price_range.target =
              IF MatchOf("target") # None THEN Some(int(MatchOf("target")[1])) ELSE None
        /\ price_range.max =
              IF MatchOf("target") # None
              THEN Some((int(MatchOf("target")[1]) * 12) \div 10)
              ELSE IF MatchOf("range") # None THEN Some(int(MatchOf("range")[2]))
              ELSE IF MatchOf("max") # None THEN Some(int(MatchOf("max")[1]))
              ELSE None
        /\ price_range.min =
              IF MatchOf("target") # None
              THEN Some((int(MatchOf("target")[1]) * 8) \div 10)
              ELSE IF MatchOf("range") # None THEN Some(int(MatchOf("range")[1]))
              ELSE IF MatchOf("min") # None THEN Some(int(MatchOf("min")[1]))
              ELSE None

\* The max pattern and the min pattern both matched and both fields are set.
C10_Witness ==
    /\ Extracted
    /\ MatchOf("max") # None /\ MatchOf("min") # None
    /\ MatchOf("range") = None /\ MatchOf("target") = None
    /\ price_range.max = Some(int(MatchOf("max")[1]))
    /\ price_range.min = Some(int(MatchOf("min")[1]))

\* C23: whenever extract_price_range returns a target, it returns
\* min = int(0.8 * target) and max = int(1.2 * target) with it, so that
\* min <= target <= max, also when under, above or between phrases are in
\* the text.
C23_TargetSetsBounds ==
    (Extracted /\ price_range.target # None) =>
        /\ price_range.min = Some((price_range.target[1] * 8) \div 10)
        /\ price_range.max = Some((price_range.target[1] * 12) \div 10)
        /\ price_range.min[1] <= price_range.target[1]
        /\ price_range.target[1] <= price_range.max[1]

\* "around 4500" and an "under" phrase with another number are in the text,
\* and the bounds are those of the target.
C23_Witness ==
    /\ Extracted
    /\ MatchOf("target") # None /\ MatchOf("max") # None
    /\ int(MatchOf("max")[1]) # 5400
    /\ price_range = [min |-> Some(3600), max |-> Some(5400), target |-> Some(4500)]

-----------------------------------------------------------------------------
(* Properties of the price and rating normalisation *)

Cleaned == clean_pc \in {"cleaned", "prepared"}

\* C11: after clean_price_column every remaining listing has a price within
\* [0.01, 1,000,000] (10 .. 1,000,000,000 thousandths), whether the raw price
\* arrived as a string or as a number.
C11_PricesWithinRange ==
    Cleaned =>
        \A i \in DOMAIN results :
            10 <= results[i].price[1] /\ results[i].price[1] <= 1000000000

\* What holds instead: the range is enforced on raw prices that arrive as str.
C11_StringPricesWithinRange ==
    Cleaned =>
        \A i \in DOMAIN results :
            results[i].raw_price.kind = "str" =>
                10 <= results[i].price[1] /\ results[i].price[1] <= 1000000000

\* C12: extract_rating_numeric returns a value in [0, 5] (0 .. 5000
\* thousandths) for every input, string or numeric.
C12_RatingWithin5 ==
    clean_pc = "prepared" =>
        \A i \in DOMAIN results :
            0 <= results[i].rating_numeric[1] /\ results[i].rating_numeric[1] <= 5000

\* What holds instead: a rating that arrives as str or is missing ends in [0, 5],
\* and is 0 when it is missing or has no digit.
C12_StringRatingWithin5 ==
    clean_pc = "prepared" =>
        \A i \in DOMAIN results :
            results[i].raw_rating.kind # "num" =>
                /\ 0 <= results[i].rating_numeric[1]
                /\ results[i].rating_numeric[1] <= 5000
                /\ (results[i].raw_rating.kind = "nan"
                    \/ DigitPositions(results[i].raw_rating.chars) = {})
                   => results[i].rating_numeric[1] = 0

\* C13: "29,900 EGP" becomes 29900.0 under clean_price_egp and 299.0 under
\* clean_price_amazon, and the listing is kept by both.
C13_ScenarioD ==
    \A i \in DOMAIN raw_results :
        raw_results[i].price = p_29900_egp =>
            /\ Cleaned =>
                  /\ \E j \in DOMAIN results : results[j].raw_price = p_29900_egp
                  /\ \A j \in DOMAIN results :
                        results[j].raw_price = p_29900_egp
                        => results[j].price = Some(29900000)
            /\ live_pc = "cleaned" =>
                  /\ \E j \in DOMAIN live_results : live_results[j].raw_price = p_29900_egp
                  /\ \A j \in DOMAIN live_results :
                        live_results[j].raw_price = p_29900_egp
                        => live_results[j].price = Some(299000)

\* Both cleaners have run over a table that holds "29,900 EGP".
C13_Witness ==
    /\ Cleaned /\ live_pc = "cleaned"
    /\ \E i \in DOMAIN raw_results : raw_results[i].price = p_29900_egp
    /\ \E j \in DOMAIN results : results[j].price = Some(29900000)
    /\ \E j \in DOMAIN live_results : live_results[j].price = Some(299000)

-----------------------------------------------------------------------------
(* Properties of the search block of app.py *)

\* preprocess_text has run in this search.
Preprocessed == app_pc \in {"preprocessed", "query", "stopped", "crawled", "ranking"}

\* C14: crawl_all_platforms is never invoked for a query whose token list is
\* empty after preprocess_text; the error is reported and processing stops.
C14_NoCrawlOnEmptyQuery ==
    (Preprocessed /\ tokens = <<>>) =>
        /\ crawl_calls = 0
        /\ app_pc # "crawled"
        /\ app_pc = "stopped" => notice = "error"

\* A text of stopwords or punctuation only was entered: the search stopped
\* with the error and without a crawl.
C14_Witness ==
    /\ Strip(user_input) # <<>>
    /\ tokens = <<>>
    /\ app_pc = "stopped"
    /\ notice = "error"
    /\ crawl_calls = 0

\* C22: for every entry of the phrase table of the text's language,
\* preprocess_text on a text with that word pair in it gives the compound
\* token in the place of the pair ("less than 5000" gives less_than, 5000).
C22_PairsMerged ==
    Preprocessed =>
        \A ph \in AR_PHRASE_MAP \cup EN_PHRASE_MAP :
            user_input = PhraseText(ph) => tokens = <<ph[3], w_5000>>

\* C22 for the one entry neither word of which is a stopword.
C22_TahtHaddMerged ==
    (Preprocessed /\ user_input = w_taht \o <<" ">> \o w_hadd \o <<" ">> \o w_5000)
        => tokens = <<w_taht \o <<"_">> \o w_hadd, w_5000>>

\* C26: every listing that is ranked was produced by this search's crawl:
\* when all platforms return nothing the search ends with the no_products
\* warning, and no row that an earlier search left in csv_path is ranked.
C26_OnlyThisSearchRanked ==
    /\ app_pc = "ranking" =>
           \A i \in DOMAIN ranked_from : ranked_from[i].search = "this"
    /\ (crawl_calls = 1 /\ crawl_df = <<>> /\ app_pc \in {"stopped", "ranking"}
        /\ notice # "error")
           => (app_pc = "stopped" /\ notice = "no_products")

\* C26 for the searches whose crawl collected listings, and for those that
\* find no csv_path.
C26_FreshOrNoFile ==
    /\ (app_pc = "ranking" /\ crawl_df # <<>>) => ranked_from = crawl_df
    /\ (app_pc \in {"stopped", "ranking"} /\ crawl_calls = 1 /\ notice # "error"
        /\ crawl_df = <<>> /\ csv_file = None)
           => (app_pc = "stopped" /\ notice = "no_products")

-----------------------------------------------------------------------------
(* Properties of fetch_with_retry *)

\* C15: for every sequence of timeouts, request errors, 429 and other non-200
\* statuses, session.get is called at most max_retries times, a response is
\* returned only if some attempt answered 200, and None is returned otherwise.
C15_BoundedAttempts ==
    /\ Len(responses) <= max_retries
    /\ fetch_pc = "returned" =>
          /\ fetched # None => responses[Len(responses)] = "200"
          /\ fetched = None => \A i \in DOMAIN responses : responses[i] # "200"

\* Two failed attempts (one of them rate limited), then 200 on the last one.
C15_Witness ==
    /\ fetch_pc = "returned"
    /\ max_retries = 3
    /\ Len(responses) = 3
    /\ responses[2] = "429"
    /\ responses[3] = "200"
    /\ fetched = Some("200")

\* C25: on HTTP 429 at attempt k (0-based) fetch_with_retry waits 2 * 2^k
\* seconds and goes on with the loop, so that it retries if attempts remain;
\* after a timeout, a request error or another non-200 status at attempt k it
\* waits 2^k seconds, which is less, or returns without waiting.
C25_LongerBackoffOn429 ==
    [][Len(responses') = Len(responses) + 1 =>
          /\ responses'[Len(responses')] = "429" =>
                /\ sleeps' = Append(sleeps, 2 * 2^attempt)
                /\ fetch_pc' = "loop"
                /\ attempt' = attempt + 1
          /\ responses'[Len(responses')] \in {"500", "timeout", "error"} =>
                \/ sleeps' = sleeps /\ fetch_pc' = "returned"
                \/ /\ sleeps' = Append(sleeps, 2^attempt)
                   /\ 2^attempt < 2 * 2^attempt
                   /\ fetch_pc' = "loop"]_vars

\* A timeout at attempt 0 and a 429 at attempt 1 were waited for 1 and 4
\* seconds, and an attempt remains.
C25_Witness ==
    /\ fetch_pc = "loop"
    /\ max_retries = 3
    /\ responses = <<"timeout", "429">>
    /\ sleeps = <<1, 4>>
    /\ attempt = 2

(* Properties of the adapters' pagination loop *)

\* The crawl has returned.
Crawled == loop_pc = "returned"

\* The fetch of some search page failed.
SomePageFailed == \E k \in DOMAIN page_log : page_log[k].got = "failed"

C17_AtMostMaxProducts ==
    max_products > 0 =>
        /\ Len(collected) <= max_products
        /\ Len(written) <= max_products
        /\ fetched_products = Len(collected)

\* A detailed crawl with max_products = 3 has returned with three listings,
\* taken from page 1 and from page 2, and page 2 had a listing more.
C17_Witness ==
    /\ Crawled
    /\ detailed
    /\ max_products = 3
    /\ Len(written) = 3
    /\ written[1].page = 1
    /\ written[3].page = 2
    /\ Len(page_bases) = 2
    /\ written[2].page = 1

\* The search pages fetched so far are 1, 2, ... in this order.
FetchedInOrder == \A k \in DOMAIN page_log : page_log[k].number = k

\* C18: with pages >= 1 an adapter fetches at most `pages` search pages, in
\* increasing page-number order, and the crawl returns whatever the source
\* answers: failures, pages without items, pages with items.
C18_PagesBoundedAndTerminates ==
    (pages >= 1) => ([](Len(page_log) <= pages /\ FetchedInOrder) /\ <>Crawled)

\* A crawl with pages = 2 has fetched two pages with items, the source
\* having more, and has returned.
C18_Witness ==
    /\ Crawled
    /\ pages = 2
    /\ max_products = 0
    /\ Len(page_log) = 2
    /\ page_log[1] = [number |-> 1, got |-> "items"]
    /\ page_log[2] = [number |-> 2, got |-> "items"]
    /\ page_number = 3

\* C19 as stated: with detailed fetching, a field (title, price, rating,
\* image) that the search result had is not empty in the emitted listing,
\* whether the product page was fetched, failed, or lacks the field.
C19_EnrichmentKeepsFields ==
    detailed =>
        \A r \in DOMAIN collected :
            /\ collected[r].base.title # "" => collected[r].title # ""
            /\ collected[r].base.price # "" => collected[r].price # ""
            /\ collected[r].base.rating # "" => collected[r].rating # ""
            /\ collected[r].base.image_url # "" => collected[r].image # ""

\* C19 without the image on Amazon: title, price and rating are kept on
\* every site, the image on Noon and Jumia.
C19_KeptElsewhere ==
    detailed =>
        \A r \in DOMAIN collected :
            /\ collected[r].base.title # "" => collected[r].title # ""
            /\ collected[r].base.price # "" => collected[r].price # ""
            /\ collected[r].base.rating # "" => collected[r].rating # ""
            /\ (site # "Amazon" /\ collected[r].base.image_url # "")
                   => collected[r].image # ""

\* The items of search page n that have a row in the CSV.
EmittedOf(n) == {written[k].item : k \in {j \in DOMAIN written : written[j].page = n}}

\* Of every page, the rows written are those of its first items.
FirstItemsEmitted ==
    \A n \in 1..(MaxPages + 1) : EmittedOf(n) = 1..Cardinality(EmittedOf(n))

\* C28: in detailed mode with a max_products, the listings emitted are the
\* same for every completion order of the detail workers: those that are
\* emitted when the workers finish in page order, the first items.
C28_SameListingsAnyWorkerOrder ==
    (Crawled /\ detailed /\ max_products # 0) => FirstItemsEmitted

\* C28 where no detail worker runs or no max_products cuts a page.
C28_FirstItemsOtherwise ==
    (Crawled /\ (~detailed \/ max_products = 0)) => FirstItemsEmitted

LoopLeft == loop_pc \in {"save", "returned"}

LastPageGot(got) == page_log # <<>> /\ page_log[Len(page_log)].got = got

\* C30: the pagination loop is left only when the page number is past a
\* non-zero page budget, a page fetch failed after the retries, a page had no
\* items, or a non-zero max_products is reached; with pages = 0 and
\* max_products = 0 only a failed or an empty page ends it, and while every
\* page so far had items the loop is still fetching.
C30_FourExitsOnly ==
    /\ LoopLeft =>
          \/ pages # 0 /\ page_number > pages
          \/ LastPageGot("failed")
          \/ LastPageGot("empty")
          \/ max_products # 0 /\ fetched_products >= max_products
    /\ (pages = 0 /\ max_products = 0) =>
          /\ LoopLeft => (LastPageGot("failed") \/ LastPageGot("empty"))
          /\ (\A k \in DOMAIN page_log : page_log[k].got = "items")
                => loop_pc \in {"loop", "details"}

\* Without a page budget and without a max_products the adapter fetched
\* every page that had items and stopped at the empty page behind them.
C30_Witness ==
    /\ Crawled /\ pages = 0 /\ max_products = 0
    /\ Len(page_log) = MaxPages + 1
    /\ \A k \in 1..MaxPages : page_log[k].got = "items"
    /\ LastPageGot("empty")

(* Properties of extract_from_result_item *)

\* The cleaned text of the element selector i matched, for the field whose
\* loop has just run: the title takes get_text(" ", strip=True), price and
\* rating take get_text().
CleanedText(i) ==
    IF tags[i] = None THEN <<>>
    ELSE IF noon_pc = "title" THEN clean_text(get_text_stripped(tags[i][1]))
    ELSE clean_text(get_text(tags[i][1]))

\* The selectors that yield non-empty text.
Yielding == {i \in DOMAIN tags : CleanedText(i) # <<>>}

\* C24: for a Noon search-result item, each of title, price and rating is the
\* cleaned text of the first selector of the field's priority list whose
\* element has non-empty text, and "" when no selector yields text.
C24_FirstSelectorWithTextWins ==
    noon_pc \in {"title", "price", "rating"} =>
        data[noon_pc] = IF Yielding = {} THEN <<>>
                        ELSE CleanedText(CHOOSE i \in Yielding : \A j \in Yielding : i <= j)

\* The first title selector matches an element with blank text, the third
\* one with the text nodes " A", "B \n C ": the title is "A B C".
C24_Witness ==
    /\ noon_pc = "title"
    /\ tags[1] = Some(e_blank)
    /\ tags[2] = None
    /\ tags[3] = Some(e_nodes)
    /\ data.title = <<"A", " ", "B", " ", "C">>

====
